---- MODULE Spec2Model ----
(***************************************************************************)
(* Verification model of the ZDD core of CountingNonoverlappingUnfoldings: *)
(* the frontier-based SpanningTree spec, the UnfoldingFilter and           *)
(* SymmetryFilter subsetting specs, the EdgeRestrictor partitioner and the *)
(* standard / partitioned pipeline drivers of main.cpp.                    *)
(*                                                                         *)
(* A ZDD is represented by the family of edge sets it encodes; an edge set *)
(* is a subset of 0..|E|-1.  Level L of a spec decides edge |E| - L.       *)
(***************************************************************************)
EXTENDS Integers, Sequences, FiniteSets, TLC

\* ------------------------------------------------------------------------
\* Bounds of the model
\* ------------------------------------------------------------------------
MaxV == 3
MaxE == 3
MaxFilterEdges == 4
MaxMopes == 2
MaxMopeEdge == 2
MaxPerms == 2
MaxPermChoices == 2
MaxDepth == 2
OtherGroupOrder == 3
MaxCountEdges == 3
MaxFamily == 2
MaxRelabelV == 3
MaxRelabelE == 2

\* ------------------------------------------------------------------------
\* Generic helpers
\* ------------------------------------------------------------------------
Min(S) == CHOOSE x \in S : \A y \in S : x <= y
Max(S) == CHOOSE x \in S : \A y \in S : x >= y
Range(s) == {s[i] : i \in DOMAIN s}

\* ------------------------------------------------------------------------
\* Graph: a sequence of edges <<v1, v2>>, vertices numbered 1..n; edge i of
\* the code is G[i + 1].
\* ------------------------------------------------------------------------
edgeSize(G) == Len(G)
Ends(G, i) == {G[i + 1][1], G[i + 1][2]}
Vertices(G) == UNION {Ends(G, i) : i \in 0..(Len(G) - 1)}
vertexSize(G) == Cardinality(Vertices(G))

\* ------------------------------------------------------------------------
\* FrontierManager
\* ------------------------------------------------------------------------
FirstOcc(G, v) == Min({i \in 0..(Len(G) - 1) : v \in Ends(G, i)})
LastOcc(G, v) == Max({i \in 0..(Len(G) - 1) : v \in Ends(G, i)})

\* endpoints of edge i in the order (v1, v2), a self-loop listed once
EndsSeq(G, i) ==
    IF G[i + 1][1] = G[i + 1][2] THEN <<G[i + 1][1]>>
    ELSE <<G[i + 1][1], G[i + 1][2]>>

getEnteringVs(G, i) ==
    SelectSeq(EndsSeq(G, i), LAMBDA v : FirstOcc(G, v) = i)
getLeavingVs(G, i) ==
    SelectSeq(EndsSeq(G, i), LAMBDA v : LastOcc(G, v) = i)
getFrontierVs(G, i) ==
    {v \in Vertices(G) : FirstOcc(G, v) <= i /\ LastOcc(G, v) >= i}
getMaxFrontierSize(G) ==
    Max({Cardinality(getFrontierVs(G, i)) : i \in 0..(Len(G) - 1)})

\* Slot pool over 0..F-1: an entering vertex takes a free slot, a leaving
\* vertex returns its slot after the edge has been processed.
RECURSIVE AssignSlots(_, _, _, _)
AssignSlots(G, i, free, pos) ==
    IF i = Len(G) THEN pos
    ELSE LET ent == getEnteringVs(G, i)
             s1 == Min(free)
             p1 == IF Len(ent) >= 1 THEN [pos EXCEPT ![ent[1]] = s1] ELSE pos
             f1 == IF Len(ent) >= 1 THEN free \ {s1} ELSE free
             s2 == Min(f1)
             p2 == IF Len(ent) = 2 THEN [p1 EXCEPT ![ent[2]] = s2] ELSE p1
             f2 == IF Len(ent) = 2 THEN f1 \ {s2} ELSE f1
             lv == Range(getLeavingVs(G, i))
         IN  AssignSlots(G, i + 1, f2 \cup {p2[v] : v \in lv}, p2)

FrontierManager(G) ==
    [entering |-> [i \in 0..(Len(G) - 1) |-> getEnteringVs(G, i)],
     frontier |-> [i \in 0..(Len(G) - 1) |-> getFrontierVs(G, i)],
     leaving  |-> [i \in 0..(Len(G) - 1) |-> getLeavingVs(G, i)],
     maxF     |-> getMaxFrontierSize(G),
     pos      |-> AssignSlots(G, 0, 0..(getMaxFrontierSize(G) - 1),
                              [v \in Vertices(G) |-> 0])]

vertexToPos(fm, v) == fm.pos[v]

\* ------------------------------------------------------------------------
\* SpanningTree (PodArrayDdSpec over FrontierData)
\* ------------------------------------------------------------------------
initializeComp(fm) == [p \in 0..(fm.maxF - 1) |-> 0]
\* comp and the parameters of setComp and getComp are signed 16-bit
SHRT_MAX == 32767
ToShort(x) == ((x + SHRT_MAX + 1) % (2 * (SHRT_MAX + 1))) - (SHRT_MAX + 1)
getComp(fm, data, v) == data[vertexToPos(fm, ToShort(v))]
setComp(fm, data, v, c) ==
    [data EXCEPT ![vertexToPos(fm, ToShort(v))] = ToShort(c)]

ST_getRoot(G, fm) == [ret |-> edgeSize(G), data |-> initializeComp(fm)]

RECURSIVE ST_Enter_ZeroBased(_, _, _, _)
\* entering vertices stored under an ID counted from 0
ST_Enter_ZeroBased(fm, data, ent, i) ==
    IF i > Len(ent) THEN data
    ELSE ST_Enter_ZeroBased(fm, setComp(fm, data, ent[i], ent[i] - 1), ent,
                            i + 1)

RECURSIVE ST_Enter(_, _, _, _)
ST_Enter(fm, data, ent, i) ==
    IF i > Len(ent) THEN data
    ELSE ST_Enter(fm, setComp(fm, data, ent[i], ent[i]), ent, i + 1)

\* merge that keeps the smaller representative
ST_Merge_KeepMin(fm, data, frontier_vs, cmin, cmax) ==
    [p \in DOMAIN data |->
        IF \E v \in frontier_vs : vertexToPos(fm, v) = p /\ data[p] = cmax
        THEN cmin ELSE data[p]]

ST_Merge(fm, data, frontier_vs, cmin, cmax) ==
    [p \in DOMAIN data |->
        IF \E v \in frontier_vs : vertexToPos(fm, v) = p /\ data[p] = cmin
        THEN cmax ELSE data[p]]

\* The loop over leaving_vs of getChild, from index i (1-based here).
RECURSIVE ST_Leave(_, _, _, _, _)
ST_Leave(fm, data, frontier_vs, leaving_vs, i) ==
    IF i > Len(leaving_vs) THEN [pruned |-> FALSE, data |-> data]
    ELSE LET v == leaving_vs[i]
             comp_found ==
                \E w \in frontier_vs :
                    /\ w # v
                    /\ ~(\E k \in 1..(i - 1) : w = leaving_vs[k])
                    /\ getComp(fm, data, v) = getComp(fm, data, w)
         IN  IF ~comp_found THEN [pruned |-> TRUE, data |-> data]
             ELSE ST_Leave(fm, setComp(fm, data, v, -1), frontier_vs,
                           leaving_vs, i + 1)

\* getChild without the check that a leaving vertex is still connected to
\* the frontier
ST_getChild_NoOrphanCheck(G, fm, data, level, value) ==
    LET e == edgeSize(G)
        edge_index == e - level
        v1 == G[edge_index + 1][1]
        v2 == G[edge_index + 1][2]
        d1 == ST_Enter(fm, data, fm.entering[edge_index], 1)
        frontier_vs == fm.frontier[edge_index]
        c1 == getComp(fm, d1, v1)
        c2 == getComp(fm, d1, v2)
        cmin == IF c1 < c2 THEN c1 ELSE c2
        cmax == IF c1 < c2 THEN c2 ELSE c1
        d2 == IF value = 1 THEN ST_Merge(fm, d1, frontier_vs, cmin, cmax)
              ELSE d1
        gone == Range(fm.leaving[edge_index])
        d3 == [p \in DOMAIN d2 |->
                 IF \E v \in gone : vertexToPos(fm, v) = p THEN -1 ELSE d2[p]]
    IN  IF value = 1 /\ c1 = c2 THEN [ret |-> 0, data |-> d1]
        ELSE IF level = 1
             THEN [ret |-> IF getComp(fm, d2, v1) = getComp(fm, d2, v2)
                           THEN -1 ELSE 0,
                   data |-> d2]
             ELSE [ret |-> level - 1, data |-> d3]

ST_getChild(G, fm, data, level, value) ==
    LET e == edgeSize(G)
        edge_index == e - level
        v1 == G[edge_index + 1][1]
        v2 == G[edge_index + 1][2]
        d1 == ST_Enter(fm, data, fm.entering[edge_index], 1)
        frontier_vs == fm.frontier[edge_index]
        c1 == getComp(fm, d1, v1)
        c2 == getComp(fm, d1, v2)
        cmin == IF c1 < c2 THEN c1 ELSE c2
        cmax == IF c1 < c2 THEN c2 ELSE c1
        d2 == IF value = 1 THEN ST_Merge(fm, d1, frontier_vs, cmin, cmax)
              ELSE d1
        lv == ST_Leave(fm, d2, frontier_vs, fm.leaving[edge_index], 1)
    IN  IF value = 1 /\ c1 = c2 THEN [ret |-> 0, data |-> d1]
        ELSE IF level = 1
             THEN [ret |-> IF getComp(fm, d2, v1) = getComp(fm, d2, v2)
                           THEN -1 ELSE 0,
                   data |-> d2]
             ELSE IF lv.pruned THEN [ret |-> 0, data |-> lv.data]
                  ELSE [ret |-> level - 1, data |-> lv.data]

\* Top-down construction of a DdStructure from the SpanningTree spec: the
\* family of decision paths that reach the 1-terminal.
RECURSIVE ST_Paths(_, _, _, _, _)
ST_Paths(G, fm, data, level, sel) ==
    LET c0 == ST_getChild(G, fm, data, level, 0)
        c1 == ST_getChild(G, fm, data, level, 1)
        sel1 == sel \cup {edgeSize(G) - level}
        sub(c, s) == IF c.ret = 0 THEN {}
                     ELSE IF c.ret = -1 THEN {s}
                     ELSE ST_Paths(G, fm, c.data, c.ret, s)
    IN  sub(c0, sel) \cup sub(c1, sel1)

ST_Family(G, fm) ==
    LET r == ST_getRoot(G, fm)
    IN  IF r.ret <= 0 THEN {} ELSE ST_Paths(G, fm, r.data, r.ret, {})

\* ------------------------------------------------------------------------
\* BitMask (uint64_t / BigUInt<N>): the set of positions of its 1-bits
\* ------------------------------------------------------------------------
BitMask_zero == {}
BitMask_bit(pos) == {pos}

\* ------------------------------------------------------------------------
\* UnfoldingFilter
\* ------------------------------------------------------------------------
UF_getRoot(e, edges) ==
    [ret |-> e, mate |-> UNION {BitMask_bit(edge_id) : edge_id \in edges}]

\* getChild that clears the bit but never prunes
UF_getChild_NeverPrunes(e, mate, level, value) ==
    LET mask == BitMask_bit(e - level)
    IN  [ret |-> IF level = 1 THEN -1 ELSE level - 1,
         mate |-> IF value = 0 THEN mate \ mask
                  ELSE IF (mate \cap mask) # BitMask_zero
                       THEN BitMask_zero ELSE mate]

\* getChild whose 0-branch does not test for an already empty mask
UF_getChild_NoEmptyGuard(e, mate, level, value) ==
    LET mask == BitMask_bit(e - level)
        cleared == mate \ mask
    IN  IF value = 0
        THEN IF cleared = BitMask_zero
             THEN [ret |-> 0, mate |-> cleared]
             ELSE [ret |-> IF level = 1 THEN -1 ELSE level - 1,
                   mate |-> cleared]
        ELSE [ret |-> IF level = 1 THEN -1 ELSE level - 1,
              mate |-> IF (mate \cap mask) # BitMask_zero
                       THEN BitMask_zero ELSE mate]

UF_getChild(e, mate, level, value) ==
    LET mask == BitMask_bit(e - level)
        cleared == mate \ mask
    IN  IF value = 0
        THEN IF mate # BitMask_zero
             THEN IF cleared = BitMask_zero
                  THEN [ret |-> 0, mate |-> cleared]
                  ELSE [ret |-> IF level = 1 THEN -1 ELSE level - 1,
                        mate |-> cleared]
             ELSE [ret |-> IF level = 1 THEN -1 ELSE level - 1, mate |-> mate]
        ELSE [ret |-> IF level = 1 THEN -1 ELSE level - 1,
              mate |-> IF (mate \cap mask) # BitMask_zero
                       THEN BitMask_zero ELSE mate]

\* ------------------------------------------------------------------------
\* SymmetryFilter.  An edge permutation is a sequence: edge_perm[j + 1] is
\* the image of edge j.
\* ------------------------------------------------------------------------
RECURSIVE Sym_Trace(_, _, _, _)
Sym_Trace(edge_perm, j, visited, orbit) ==
    IF j \in visited THEN orbit
    ELSE Sym_Trace(edge_perm, edge_perm[j + 1], visited \cup {j},
                  orbit \cup {j})

RECURSIVE Sym_Orbits_MaxRep(_, _, _, _, _, _)
\* orbit construction that takes the largest edge as the representative
Sym_Orbits_MaxRep(edge_perm, i, visited, num_orbits, e2o, isrep) ==
    IF i = Len(edge_perm)
    THEN [edge_to_orbit |-> e2o, is_representative |-> isrep]
    ELSE IF i \in visited
         THEN Sym_Orbits_MaxRep(edge_perm, i + 1, visited, num_orbits, e2o,
                                isrep)
         ELSE LET orbit == Sym_Trace(edge_perm, i, visited, {})
                  max_edge == Max(orbit)
              IN  IF Cardinality(orbit) > 1
                  THEN Sym_Orbits_MaxRep(edge_perm, i + 1, visited \cup orbit,
                         num_orbits + 1,
                         [x \in DOMAIN e2o |->
                             IF x \in orbit THEN num_orbits ELSE e2o[x]],
                         [x \in DOMAIN isrep |->
                             IF x \in orbit THEN x = max_edge ELSE isrep[x]])
                  ELSE Sym_Orbits_MaxRep(edge_perm, i + 1, visited \cup orbit,
                         num_orbits, e2o, isrep)

RECURSIVE Sym_Orbits(_, _, _, _, _, _)
Sym_Orbits(edge_perm, i, visited, num_orbits, e2o, isrep) ==
    IF i = Len(edge_perm)
    THEN [edge_to_orbit |-> e2o, is_representative |-> isrep]
    ELSE IF i \in visited
         THEN Sym_Orbits(edge_perm, i + 1, visited, num_orbits, e2o, isrep)
         ELSE LET orbit == Sym_Trace(edge_perm, i, visited, {})
                  min_edge == Min(orbit)
              IN  IF Cardinality(orbit) > 1
                  THEN Sym_Orbits(edge_perm, i + 1, visited \cup orbit,
                         num_orbits + 1,
                         [x \in DOMAIN e2o |->
                             IF x \in orbit THEN num_orbits ELSE e2o[x]],
                         [x \in DOMAIN isrep |->
                             IF x \in orbit THEN x = min_edge ELSE isrep[x]])
                  ELSE Sym_Orbits(edge_perm, i + 1, visited \cup orbit,
                         num_orbits, e2o, isrep)

SymmetryFilter(num_edges, edge_perm) ==
    Sym_Orbits(edge_perm, 0, {}, 0,
              [x \in 0..(num_edges - 1) |-> -1],
              [x \in 0..(num_edges - 1) |-> FALSE])

Sym_getRoot(e) == [ret |-> e, mate |-> BitMask_zero]

\* getChild without the guard for edges outside every non-trivial orbit
Sym_getChild_NoOrbitGuard(e, sf, mate, level, value) ==
    LET edge_index == e - level
        orbit == sf.edge_to_orbit[edge_index]
        orbit_bit == BitMask_bit(orbit)
        orbit_included == (mate \cap orbit_bit) # BitMask_zero
        next == IF level = 1 THEN -1 ELSE level - 1
    IN  IF sf.is_representative[edge_index]
        THEN [ret |-> next,
              mate |-> IF value = 1 THEN mate \cup orbit_bit ELSE mate]
        ELSE IF orbit_included /\ value = 0 THEN [ret |-> 0, mate |-> mate]
             ELSE IF ~orbit_included /\ value = 1
                  THEN [ret |-> 0, mate |-> mate]
                  ELSE [ret |-> next, mate |-> mate]

\* getChild that lets a non-representative join an excluded orbit
Sym_getChild_NoExcludeCheck(e, sf, mate, level, value) ==
    LET edge_index == e - level
        orbit == sf.edge_to_orbit[edge_index]
        orbit_bit == BitMask_bit(orbit)
        orbit_included == (mate \cap orbit_bit) # BitMask_zero
        next == IF level = 1 THEN -1 ELSE level - 1
    IN  IF orbit >= 0
        THEN IF sf.is_representative[edge_index]
             THEN [ret |-> next,
                   mate |-> IF value = 1 THEN mate \cup orbit_bit ELSE mate]
             ELSE IF orbit_included /\ value = 0 THEN [ret |-> 0, mate |-> mate]
                  ELSE [ret |-> next, mate |-> mate]
        ELSE [ret |-> next, mate |-> mate]

Sym_getChild(e, sf, mate, level, value) ==
    LET edge_index == e - level
        orbit == sf.edge_to_orbit[edge_index]
        orbit_bit == BitMask_bit(orbit)
        orbit_included == (mate \cap orbit_bit) # BitMask_zero
        next == IF level = 1 THEN -1 ELSE level - 1
    IN  IF orbit >= 0
        THEN IF sf.is_representative[edge_index]
             THEN [ret |-> next,
                   mate |-> IF value = 1 THEN mate \cup orbit_bit ELSE mate]
             ELSE IF orbit_included /\ value = 0 THEN [ret |-> 0, mate |-> mate]
                  ELSE IF ~orbit_included /\ value = 1
                       THEN [ret |-> 0, mate |-> mate]
                       ELSE [ret |-> next, mate |-> mate]
        ELSE [ret |-> next, mate |-> mate]

\* ------------------------------------------------------------------------
\* EdgeRestrictor (state is the constant 0)
\* ------------------------------------------------------------------------
RECURSIVE Pow2(_)
Pow2(k) == IF k = 0 THEN 1 ELSE 2 * Pow2(k - 1)

\* restrictor that constrains one edge too many
ER_getChild_OffByOne(num_edges, depth, partition, level, value) ==
    LET edge_idx == num_edges - level
        required == (partition \div Pow2(edge_idx)) % 2
    IN  IF edge_idx <= depth /\ value # required THEN 0
        ELSE IF level <= 1 THEN -1 ELSE level - 1

ER_getChild(num_edges, depth, partition, level, value) ==
    LET edge_idx == num_edges - level
        required == (partition \div Pow2(edge_idx)) % 2
    IN  IF edge_idx < depth /\ value # required THEN 0
        ELSE IF level <= 1 THEN -1 ELSE level - 1

\* ------------------------------------------------------------------------
\* DdStructure operations on the encoded family
\* ------------------------------------------------------------------------
\* DdStructure(zddIntersection(ST, restrictor)): both specs move one level
\* per call, so they stay in step; a path is kept when neither spec prunes
\* it and both reach the 1-terminal.
RECURSIVE Part_Paths(_, _, _, _, _, _, _)
Part_Paths(G, fm, depth, partition, data, level, sel) ==
    LET sub(value) ==
            LET a == ST_getChild(G, fm, data, level, value)
                b == ER_getChild(edgeSize(G), depth, partition, level, value)
                s == IF value = 1 THEN sel \cup {edgeSize(G) - level} ELSE sel
            IN  IF a.ret = 0 \/ b = 0 THEN {}
                ELSE IF a.ret = -1 /\ b = -1 THEN {s}
                ELSE IF a.ret = b
                     THEN Part_Paths(G, fm, depth, partition, a.data, a.ret, s)
                     ELSE {}
    IN  sub(0) \cup sub(1)

Part_Family(G, fm, depth, partition) ==
    LET r == ST_getRoot(G, fm)
    IN  IF r.ret <= 0 THEN {}
        ELSE Part_Paths(G, fm, depth, partition, r.data, r.ret, {})

\* zddSubset: the members of dd whose decision path the spec accepts (an
\* edge absent from the set is a 0-branch).
RECURSIVE UF_Run(_, _, _, _)
UF_Run(e, mate, level, S) ==
    LET c == UF_getChild(e, mate, level, IF (e - level) \in S THEN 1 ELSE 0)
    IN  IF c.ret = 0 THEN FALSE
        ELSE IF c.ret = -1 THEN TRUE
        ELSE UF_Run(e, c.mate, c.ret, S)

zddSubset_Unfolding(dd, num_edges, mope) ==
    LET r == UF_getRoot(num_edges, mope)
    IN  {S \in dd : UF_Run(num_edges, r.mate, r.ret, S)}

RECURSIVE Sym_Run(_, _, _, _, _)
Sym_Run(e, sf, mate, level, S) ==
    LET c == Sym_getChild(e, sf, mate, level,
                          IF (e - level) \in S THEN 1 ELSE 0)
    IN  IF c.ret = 0 THEN FALSE
        ELSE IF c.ret = -1 THEN TRUE
        ELSE Sym_Run(e, sf, c.mate, c.ret, S)

zddSubset_Symmetry(dd, num_edges, edge_perm) ==
    LET sf == SymmetryFilter(num_edges, edge_perm)
        r == Sym_getRoot(num_edges)
    IN  {S \in dd : Sym_Run(num_edges, sf, r.mate, r.ret, S)}

\* ------------------------------------------------------------------------
\* Decimal strings: a string of digits is the sequence of its digit values
\* ------------------------------------------------------------------------
RECURSIVE ToDecimal(_)
ToDecimal(n) ==
    IF n < 10 THEN <<n>> ELSE Append(ToDecimal(n \div 10), n % 10)

RECURSIVE FromDecimal(_)
FromDecimal(str) ==
    IF Len(str) = 0 THEN 0
    ELSE 10 * FromDecimal(SubSeq(str, 1, Len(str) - 1)) + str[Len(str)]

Reverse(str) == [k \in 1..Len(str) |-> str[Len(str) + 1 - k]]

zddCardinality(dd) == ToDecimal(Cardinality(dd))

\* i, j index the next digit of a and b from the right (0 = exhausted)
RECURSIVE bigint_add_loop(_, _, _, _, _, _)
bigint_add_loop(a, b, i, j, carry, result) ==
    IF i >= 1 \/ j >= 1 \/ carry # 0
    THEN LET sum == carry + (IF i >= 1 THEN a[i] ELSE 0)
                          + (IF j >= 1 THEN b[j] ELSE 0)
         IN  bigint_add_loop(a, b,
                             IF i >= 1 THEN i - 1 ELSE i,
                             IF j >= 1 THEN j - 1 ELSE j,
                             sum \div 10, Append(result, sum % 10))
    ELSE result

bigint_add(a, b) == Reverse(bigint_add_loop(a, b, Len(a), Len(b), 0, <<>>))

RECURSIVE bigint_divide_loop(_, _, _, _, _)
bigint_divide_loop(a, b, k, rem, result) ==
    IF k > Len(a) THEN [result |-> result, rem |-> rem]
    ELSE LET r == rem * 10 + a[k]
         IN  bigint_divide_loop(a, b, k + 1, r % b, Append(result, r \div b))

\* division that reports no remainder
bigint_divide_NoRemainder(a, b) ==
    LET d == bigint_divide_loop(a, b, 1, 0, <<>>)
        nz == {k \in 1..Len(d.result) : d.result[k] # 0}
    IN  [quotient |-> IF nz = {} THEN <<0>>
                      ELSE SubSeq(d.result, Min(nz), Len(d.result)),
         remainder |-> 0]

bigint_divide(a, b) ==
    LET d == bigint_divide_loop(a, b, 1, 0, <<>>)
        nz == {k \in 1..Len(d.result) : d.result[k] # 0}
    IN  [quotient |-> IF nz = {} THEN <<0>>
                      ELSE SubSeq(d.result, Min(nz), Len(d.result)),
         remainder |-> d.rem]

\* ------------------------------------------------------------------------
\* Steps of the drivers of main.cpp
\* ------------------------------------------------------------------------
\* identity test that looks at the first edge only
is_identity_FirstOnly(edge_perm, num_edges) == edge_perm[1] = 0

is_identity(edge_perm, num_edges) ==
    \A j \in 0..(num_edges - 1) : edge_perm[j + 1] = j

\* zero_flags never honoured
has_zero_flags_Never(zero_flags, total) == FALSE

\* zero_flags honoured whenever there are enough of them
has_zero_flags_AtLeast(zero_flags, total) == Len(zero_flags) >= total
has_zero_flags(zero_flags, total) == Len(zero_flags) = total

\* one MOPE of the filtering loop: subset, then reduce
\* filtering step that always applies the first MOPE
FilterStep_FirstMope(dd, MOPEs, i, num_edges) ==
    zddSubset_Unfolding(dd, num_edges, MOPEs[1])

FilterStep(dd, MOPEs, i, num_edges) ==
    zddSubset_Unfolding(dd, num_edges, MOPEs[i + 1])

\* loop body that subsets the shared ZDD in place instead of a copy
CloneSubset_InPlace(dd, edge_perm, num_edges) ==
    [dd |-> zddSubset_Symmetry(dd, num_edges, edge_perm),
     dd_copy |-> zddSubset_Symmetry(dd, num_edges, edge_perm)]

\* dd_copy(dd); dd_copy.zddSubset(sym_filter); dd_copy.zddReduce()
CloneSubset(dd, edge_perm, num_edges) ==
    [dd |-> dd, dd_copy |-> zddSubset_Symmetry(dd, num_edges, edge_perm)]

\* |T_g| of one permutation that is not skipped
InvariantCount(dd, edge_perm, num_edges, identity_count) ==
    IF is_identity(edge_perm, num_edges) THEN identity_count
    ELSE zddCardinality(zddSubset_Symmetry(dd, num_edges, edge_perm))

\* ------------------------------------------------------------------------
\* Node tables (tdzdd NodeTableEntity<2>): row 0 holds the terminals, a node
\* is [branch |-> <<f0, f1>>] and a NodeId is <<row, col>>.
\* ------------------------------------------------------------------------
ZeroTerminal == <<0, 0>>
OneTerminal == <<0, 1>>
Branch(node, b) == node.branch[b + 1]

RECURSIVE SetToSeq(_)
SetToSeq(S) ==
    IF S = {} THEN <<>>
    ELSE LET x == CHOOSE y \in S : TRUE IN <<x>> \o SetToSeq(S \ {x})

\* the sets of F without edge x (b = 0), with edge x and x removed (b = 1)
SubFamily(F, x, b) ==
    IF b = 0 THEN {S \in F : x \notin S}
    ELSE {S \ {x} : S \in {T \in F : x \in T}}
\* the node that stands for family F below level i: in the reduced form a
\* node sits at the level of the first edge F uses, otherwise at level i
NodeKey(reduced, num_edges, i, F) ==
    IF F = {} THEN <<0, {}>>
    ELSE IF reduced
    THEN IF F = {{}} THEN <<0, {{}}>>
         ELSE <<num_edges - Min(UNION F), F>>
    ELSE IF i = 0 THEN <<0, {{}}>> ELSE <<i, F>>
ChildKey(reduced, num_edges, key, b) ==
    NodeKey(reduced, num_edges, key[1] - 1,
            SubFamily(key[2], num_edges - key[1], b))
RECURSIVE NodeKeys(_, _, _)
NodeKeys(reduced, num_edges, key) ==
    IF key[1] = 0 THEN {}
    ELSE {key} \cup NodeKeys(reduced, num_edges,
                             ChildKey(reduced, num_edges, key, 0))
               \cup NodeKeys(reduced, num_edges,
                             ChildKey(reduced, num_edges, key, 1))
IndexOf(seq, x) == CHOOSE k \in DOMAIN seq : seq[k] = x
\* the diagram of family F over num_edges edges, with its root
NodeTable(reduced, num_edges, F) ==
    LET rootKey == NodeKey(reduced, num_edges, num_edges, F)
        keys == NodeKeys(reduced, num_edges, rootKey)
        rowOf == [i \in 1..rootKey[1] |-> SetToSeq({k \in keys : k[1] = i})]
        IdOf(key) == IF key[1] = 0 THEN (IF key[2] = {} THEN ZeroTerminal
                                         ELSE OneTerminal)
                     ELSE <<key[1], IndexOf(rowOf[key[1]], key) - 1>>
    IN  [root |-> IdOf(rootKey),
         rows |-> [i \in 1..rootKey[1] |->
                     [j \in 0..(Len(rowOf[i]) - 1) |->
                        [branch |->
                           <<IdOf(ChildKey(reduced, num_edges,
                                           rowOf[i][j + 1], 0)),
                             IdOf(ChildKey(reduced, num_edges,
                                           rowOf[i][j + 1], 1))>>]]]]
RowSize(rows, i) == Cardinality(DOMAIN rows[i])

\* ------------------------------------------------------------------------
\* InvariantCounter.hpp: count_invariant_trees.  A SpecNode holds the filter
\* state and, in one union, first the place its node id is to be written
\* to (srcPtr) and then the node id itself.
\* ------------------------------------------------------------------------
count_orbits(num_edges, edge_perm) ==
    Sym_Orbits(edge_perm, 0, {}, 0,
               [x \in 0..(num_edges - 1) |-> -1],
               [x \in 0..(num_edges - 1) |-> FALSE])

\* the filter step without the test that rejects a selected edge whose
\* orbit was left out
applyFilter_NoExcludeCheck(orbits, num_edges, st, level, value) ==
    LET edge_index == num_edges - level
        orbit == orbits.edge_to_orbit[edge_index]
        orbit_bit == BitMask_bit(orbit)
        orbit_included == (st \cap orbit_bit) # BitMask_zero
        next == IF level = 1 THEN -1 ELSE level - 1
    IN  IF orbit >= 0
        THEN IF orbits.is_representative[edge_index]
             THEN [ret |-> next,
                   st |-> IF value = 1 THEN st \cup orbit_bit ELSE st]
             ELSE IF orbit_included /\ value = 0 THEN [ret |-> 0, st |-> st]
             ELSE [ret |-> next, st |-> st]
        ELSE [ret |-> next, st |-> st]

applyFilter(orbits, num_edges, st, level, value) ==
    LET edge_index == num_edges - level
        orbit == orbits.edge_to_orbit[edge_index]
        orbit_bit == BitMask_bit(orbit)
        orbit_included == (st \cap orbit_bit) # BitMask_zero
        next == IF level = 1 THEN -1 ELSE level - 1
    IN  IF orbit >= 0
        THEN IF orbits.is_representative[edge_index]
             THEN [ret |-> next,
                   st |-> IF value = 1 THEN st \cup orbit_bit ELSE st]
             ELSE IF orbit_included /\ value = 0 THEN [ret |-> 0, st |-> st]
             ELSE IF ~orbit_included /\ value = 1 THEN [ret |-> 0, st |-> st]
             ELSE [ret |-> next, st |-> st]
        ELSE [ret |-> next, st |-> st]

RECURSIVE downTable_loop(_, _, _)
downTable_loop(rows, f, zerosupLevel) ==
    IF f[1] > zerosupLevel
    THEN downTable_loop(rows, Branch(rows[f[1]][f[2]], 0), zerosupLevel)
    ELSE f
downTable(rows, f, b, zerosupLevel) ==
    LET g == downTable_loop(rows, Branch(rows[f[1]][f[2]], b),
                            Max({zerosupLevel, 0}))
    IN  [ret |-> IF g = OneTerminal THEN -1 ELSE g[1], f |-> g]

RECURSIVE downSpec_loop(_, _, _, _)
downSpec_loop(orbits, num_edges, c, zerosupLevel) ==
    IF c.ret > zerosupLevel
    THEN downSpec_loop(orbits, num_edges,
                       applyFilter(orbits, num_edges, c.st, c.ret, 0),
                       zerosupLevel)
    ELSE c
downSpec(orbits, num_edges, st, level, b, zerosupLevel) ==
    downSpec_loop(orbits, num_edges,
                  applyFilter(orbits, num_edges, st, level, b),
                  Max({zerosupLevel, 0}))

RECURSIVE Synchronize(_, _, _, _, _, _, _)
\* both sides descend on 0-branches until they stand on one level
Synchronize(rows, orbits, num_edges, f, st, kk, ii) ==
    IF ii # 0 /\ kk # 0 /\ ii # kk
    THEN IF ii < kk
         THEN LET d == downTable(rows, f, 0, ii)
              IN  Synchronize(rows, orbits, num_edges, d.f, st, d.ret, ii)
         ELSE LET c == downSpec(orbits, num_edges, st, ii, 0, kk)
              IN  Synchronize(rows, orbits, num_edges, f, c.st, kk, c.ret)
    ELSE [f |-> f, st |-> st, kk |-> kk, ii |-> ii]

NoId == <<-1, -1>>
UnusedId == OneTerminal
RootPtr == <<0, 0, 0>>
SpecNode(st, ptr) == [state |-> st, srcPtr |-> ptr, nodeId |-> NoId]
alloc_front(list, p) == <<p>> \o list

\* *sp = nid, where sp points to outputRoot or to a branch of an output node
StoreId(tab, sp, nid) ==
    IF sp = RootPtr THEN [tab EXCEPT !.outputRoot = nid]
    ELSE [tab EXCEPT !.output[sp[1]][sp[2]].branch[sp[3] + 1] = nid]

RECURSIVE Pass1_list(_, _, _, _)
\* acc: the list so far, the next column mm, the output table
Pass1_list(list, t, i, acc) ==
    IF t > Len(list) THEN acc
    ELSE
    LET p == list[t]
        same == {u \in 1..(t - 1) : list[u].state = p.state}
    IN  IF same = {}
        THEN Pass1_list(list, t + 1, i,
                 [list |-> Append(acc.list, [p EXCEPT !.nodeId = <<i, acc.mm>>]),
                  mm |-> acc.mm + 1,
                  tab |-> StoreId(acc.tab, p.srcPtr, <<i, acc.mm>>)])
        ELSE Pass1_list(list, t + 1, i,
                 [list |-> Append(acc.list, [p EXCEPT !.nodeId = UnusedId]),
                  mm |-> acc.mm,
                  tab |-> StoreId(acc.tab, p.srcPtr,
                                  acc.list[Min(same)].nodeId)])

RECURSIVE Pass1(_, _, _, _)
\* st: the work row, the next column mm, the output table
Pass1(i, j, m, st) ==
    IF j = m THEN st
    ELSE LET r == Pass1_list(st.work[j], 1, i,
                             [list |-> <<>>, mm |-> st.mm, tab |-> st.tab])
         IN  Pass1(i, j + 1, m,
                   [work |-> [st.work EXCEPT ![j] = r.list],
                    mm |-> r.mm, tab |-> r.tab])

\* the table rows are sized on first use
Resized(work, rows, ii) ==
    IF DOMAIN work[ii] = {}
    THEN [work EXCEPT ![ii] = [c \in DOMAIN rows[ii] |-> <<>>]]
    ELSE work

\* one branch of the node q = output[i][jj] made from p = work[i][j][t]
\* the branch step that stores the 1-terminal unless both sides ended at 0
Pass2_branch_TopIfEither(rows, orbits, num_edges, i, j, p, jj, b, st) ==
    LET d == downTable(rows, <<i, j>>, b, i - 1)
        c == downSpec(orbits, num_edges, p.state, i, b, d.ret)
        s == Synchronize(rows, orbits, num_edges, d.f, c.st, d.ret, c.ret)
    IN  IF s.ii <= 0 \/ s.kk <= 0
        THEN [st EXCEPT !.tab.output[i][jj].branch[b + 1] =
                 IF s.ii # 0 \/ s.kk # 0 THEN OneTerminal ELSE ZeroTerminal]
        ELSE LET w == Resized(st.work, rows, s.ii)
             IN  [st EXCEPT
                    !.work = [w EXCEPT ![s.ii][s.f[2]] =
                                alloc_front(@, SpecNode(s.st, <<i, jj, b>>))],
                    !.pools = [@ EXCEPT ![s.ii] = @ + 1]]

Pass2_branch(rows, orbits, num_edges, i, j, p, jj, b, st) ==
    LET d == downTable(rows, <<i, j>>, b, i - 1)
        c == downSpec(orbits, num_edges, p.state, i, b, d.ret)
        s == Synchronize(rows, orbits, num_edges, d.f, c.st, d.ret, c.ret)
    IN  IF s.ii <= 0 \/ s.kk <= 0
        THEN [st EXCEPT !.tab.output[i][jj].branch[b + 1] =
                 IF s.ii # 0 /\ s.kk # 0 THEN OneTerminal ELSE ZeroTerminal]
        ELSE LET w == Resized(st.work, rows, s.ii)
             IN  [st EXCEPT
                    !.work = [w EXCEPT ![s.ii][s.f[2]] =
                                alloc_front(@, SpecNode(s.st, <<i, jj, b>>))],
                    !.pools = [@ EXCEPT ![s.ii] = @ + 1]]

RECURSIVE Pass2(_, _, _, _, _, _, _, _)
\* st: the work table, the pools, the output table
Pass2(rows, orbits, num_edges, i, j, t, jj, st) ==
    IF j = RowSize(rows, i) THEN st
    ELSE IF t > Len(st.work[i][j])
    THEN Pass2(rows, orbits, num_edges, i, j + 1, 1, jj, st)
    ELSE LET p == st.work[i][j][t] IN
         IF p.nodeId = UnusedId
         THEN Pass2(rows, orbits, num_edges, i, j, t + 1, jj, st)
         ELSE Pass2(rows, orbits, num_edges, i, j, t + 1, jj + 1,
                  Pass2_branch(rows, orbits, num_edges, i, j, p, jj, 1,
                    Pass2_branch(rows, orbits, num_edges, i, j, p, jj, 0, st)))

initRow(output, i, mm) ==
    [output EXCEPT ![i] = [c \in 0..(mm - 1) |->
                             [branch |-> <<ZeroTerminal, ZeroTerminal>>]]]

\* the count of one node from the counts of its two children
CountNode_HiOnly(countWork, node) ==
    countWork[Branch(node, 1)[1]][Branch(node, 1)[2]]
CountNode(countWork, node) ==
    countWork[Branch(node, 0)[1]][Branch(node, 0)[2]]
    + countWork[Branch(node, 1)[1]][Branch(node, 1)[2]]

\* ------------------------------------------------------------------------
\* edge_relabeling: readGraph, convertEdgePermutation and main.  A .grh text
\* is its header (n, m) and its e-lines; vertices are 1-indexed in the text
\* and 0-indexed inside.
\* ------------------------------------------------------------------------
PairLess(a, b) == a[1] < b[1] \/ (a[1] = b[1] /\ a[2] < b[2])
RECURSIVE SortEdges(_)
\* std::sort of the edge vector
SortEdges(edge) ==
    IF edge = <<>> THEN <<>>
    ELSE LET k == CHOOSE a \in DOMAIN edge :
                     \A b \in DOMAIN edge : ~PairLess(edge[b], edge[a])
         IN  <<edge[k]>> \o SortEdges(SubSeq(edge, 1, k - 1)
                                      \o SubSeq(edge, k + 1, Len(edge)))

readGraph(text) ==
    [n |-> text.n, m |-> text.m,
     edge |-> SortEdges([k \in DOMAIN text.lines |->
                            <<text.lines[k][1] - 1, text.lines[k][2] - 1>>])]

Normalized(u, v) == IF v < u THEN <<v, u>> ELSE <<u, v>>
RECURSIVE Copies(_, _)
Copies(x, k) == IF k = 0 THEN <<>> ELSE <<x>> \o Copies(x, k - 1)

\* the number of the first m edges that join the pair uv
EdgeMultiplicity(DG, uv) ==
    Cardinality({k \in 1..DG.m : Normalized(DG.edge[k][1], DG.edge[k][2]) = uv})
\* the map without multiplicities: a parallel edge is emitted once
EdgePresence(DG, uv) == IF EdgeMultiplicity(DG, uv) > 0 THEN 1 ELSE 0

RECURSIVE convert_loop_Set(_, _, _, _, _)
convert_loop_Set(DG, vperm, a, b, res) ==
    IF a = DG.n THEN res
    ELSE IF b = a THEN convert_loop_Set(DG, vperm, a + 1, 0, res)
    ELSE LET uv == Normalized(vperm[a + 1], vperm[b + 1])
         IN  convert_loop_Set(DG, vperm, a, b + 1,
                              res \o Copies(uv, EdgePresence(DG, uv)))
convertEdgePermutation_Set(DG, vperm) == convert_loop_Set(DG, vperm, 0, 0, <<>>)

RECURSIVE convert_loop(_, _, _, _, _)
\* for (i = 0; i < n; i++) for (j = 0; j < i; j++)
convert_loop(DG, vperm, a, b, res) ==
    IF a = DG.n THEN res
    ELSE IF b = a THEN convert_loop(DG, vperm, a + 1, 0, res)
    ELSE LET uv == Normalized(vperm[a + 1], vperm[b + 1])
         IN  convert_loop(DG, vperm, a, b + 1,
                          res \o Copies(uv, EdgeMultiplicity(DG, uv)))
convertEdgePermutation(DG, vperm) == convert_loop(DG, vperm, 0, 0, <<>>)

IsVertexOrdering(vperm, n) ==
    Len(vperm) = n /\ \A v \in 0..(n - 1) : \E k \in 1..n : vperm[k] = v
\* decompose returns bestSeq, which is written only when a complete ordering
\* below the upper bound was found in time and is uninitialised otherwise
VertexOrderings(n) == {o \in [1..n -> 0..(n - 1)] : IsVertexOrdering(o, n)}
Uninitialised(n) == [1..n -> {0, n - 1}]
decompose(DG) == VertexOrderings(DG.n) \cup Uninitialised(DG.n)

GrhTexts ==
    UNION {UNION {{[n |-> n, m |-> k, lines |-> ls] :
                     ls \in [1..k -> (1..n) \X (1..n)]} :
                  k \in 0..MaxRelabelE} : n \in 1..MaxRelabelV}

\* ------------------------------------------------------------------------
\* verify.cpp: canonical forms by explicit enumeration.  A sorted vector of
\* edges is a strictly increasing sequence.
\* ------------------------------------------------------------------------
RECURSIVE SortedVector(_)
SortedVector(S) ==
    IF S = {} THEN <<>> ELSE <<Min(S)>> \o SortedVector(S \ {Min(S)})

RECURSIVE VectorLess(_, _, _)
VectorLess(x, y, k) ==
    IF k > Len(x) \/ k > Len(y) THEN Len(x) < Len(y) /\ k > Len(x)
    ELSE IF x[k] # y[k] THEN x[k] < y[k] ELSE VectorLess(x, y, k + 1)

apply_permutation(tree, edge_perm) ==
    SortedVector({edge_perm[j + 1] : j \in tree})

RECURSIVE canonical_form_loop(_, _, _, _)
canonical_form_loop(tree, perms, k, canonical) ==
    IF k > Len(perms) THEN canonical
    ELSE LET mapped == apply_permutation(tree, perms[k])
         IN  canonical_form_loop(tree, perms, k + 1,
                IF VectorLess(mapped, canonical, 1) THEN mapped
                ELSE canonical)

canonical_form(tree, perms) ==
    canonical_form_loop(tree, perms, 1, SortedVector(tree))

\* canonical_set.size() over the enumerated trees
verify_nonisomorphic(trees, perms) ==
    Cardinality({canonical_form(tree, perms) : tree \in trees})

\* ------------------------------------------------------------------------
\* Input domains
\* ------------------------------------------------------------------------
EdgeSubsets(e) == SUBSET (0..(e - 1))
EdgePermutations(e) ==
    {p \in [1..e -> 0..(e - 1)] : \A a, b \in 1..e : p[a] = p[b] => a = b}

OrderedPairs(n) == {<<a, b>> : a, b \in 1..n} \ {<<a, a>> : a \in 1..n}
SeqsOf(S, k) == [1..k -> S]
\* every vertex 1..n is incident to an edge
SmallGraphs ==
    UNION {{g \in SeqsOf(OrderedPairs(MaxV), k) :
              \E n \in 2..MaxV : Vertices(g) = 1..n} : k \in 1..MaxE}

K4 == <<<<1, 2>>, <<1, 3>>, <<2, 3>>, <<1, 4>>, <<2, 4>>, <<3, 4>>>>
K4Star == <<<<1, 2>>, <<1, 3>>, <<1, 4>>, <<2, 3>>, <<2, 4>>, <<3, 4>>>>
K4Path == <<<<1, 2>>, <<2, 3>>, <<3, 4>>, <<1, 3>>, <<2, 4>>, <<1, 4>>>>
K3 == <<<<1, 2>>, <<2, 3>>, <<1, 3>>>>
C4 == <<<<1, 2>>, <<2, 3>>, <<3, 4>>, <<1, 4>>>>
Q3 == <<<<1, 2>>, <<1, 3>>, <<2, 4>>, <<3, 4>>, <<1, 5>>, <<2, 6>>,
        <<3, 7>>, <<4, 8>>, <<5, 6>>, <<5, 7>>, <<6, 8>>, <<7, 8>>>>
TwoK2 == <<<<1, 2>>, <<3, 4>>>>
TwoTriangles == <<<<1, 2>>, <<2, 3>>, <<1, 3>>, <<4, 5>>, <<5, 6>>, <<4, 6>>>>
NamedGraphs == {K4, K4Star, K4Path, K3, C4, Q3, TwoK2, TwoTriangles}

\* ------------------------------------------------------------------------
\* Reference notions the claims are stated against
\* ------------------------------------------------------------------------
RECURSIVE Reach(_, _, _)
Reach(G, S, R) ==
    LET R2 == R \cup UNION {Ends(G, i) : i \in {j \in S : Ends(G, j) \cap R # {}}}
    IN  IF R2 = R THEN R ELSE Reach(G, S, R2)

IsSpanningTree(G, S) ==
    /\ Cardinality(S) = vertexSize(G) - 1
    /\ Reach(G, S, {G[1][1]}) = Vertices(G)

SpanningTrees(G) ==
    {S \in EdgeSubsets(edgeSize(G)) : IsSpanningTree(G, S)}

Image(g, S) == {g[j + 1] : j \in S}

\* ------------------------------------------------------------------------
\* Inputs of the pipeline
\* ------------------------------------------------------------------------
identity_perm(num_edges) == [k \in 1..num_edges |-> k - 1]

\* edge permutations induced by the automorphisms of a simple graph
VertexMaps(G) ==
    {m \in [Vertices(G) -> Vertices(G)] :
        /\ \A a, b \in Vertices(G) : m[a] = m[b] => a = b
        /\ \A i \in 0..(Len(G) - 1) : \E j \in 0..(Len(G) - 1) :
              Ends(G, j) = {m[v] : v \in Ends(G, i)}}
InducedPerm(G, m) ==
    [k \in 1..Len(G) |->
        CHOOSE j \in 0..(Len(G) - 1) : Ends(G, j) = {m[v] : v \in Ends(G, k - 1)}]
AutPerms(G) == {InducedPerm(G, m) : m \in VertexMaps(G)}

RECURSIVE LexLess(_, _, _)
LexLess(x, y, k) ==
    IF k > Len(x) THEN FALSE
    ELSE IF x[k] # y[k] THEN x[k] < y[k] ELSE LexLess(x, y, k + 1)
RECURSIVE SortedSeq(_)
SortedSeq(S) ==
    IF S = {} THEN <<>>
    ELSE LET m == CHOOSE x \in S : \A y \in S \ {x} : LexLess(x, y, 1)
         IN  <<m>> \o SortedSeq(S \ {m})

MopeChoices(num_edges, bound) ==
    (SUBSET (0..((IF num_edges < bound THEN num_edges ELSE bound) - 1))) \ {{}}
MopeLists(num_edges, bound, maxlen) ==
    UNION {SeqsOf(MopeChoices(num_edges, bound), k) : k \in 0..maxlen}
\* the first MaxPermChoices automorphisms in lexicographic order
PermChoices(g) ==
    LET all == SortedSeq(AutPerms(g))
    IN  {all[k] : k \in {j \in DOMAIN all : j <= MaxPermChoices}}
PermLists(g) == UNION {SeqsOf(PermChoices(g), k) : k \in 1..MaxPerms}
ZeroFlagLists(n) == {<<>>} \cup [1..n -> BOOLEAN]
Depths(g) == {d \in 1..MaxDepth : d < edgeSize(g)}

K4Orders ==
    {g \in [1..6 -> Range(K4)] : \A a, b \in 1..6 : g[a] = g[b] => a = b}

Input(g, mopes, filt, perms, flags, order, d) ==
    [G |-> g, MOPEs |-> mopes, apply_filter |-> filt,
     apply_burnside |-> perms # <<>>, edge_permutations |-> perms,
     zero_flags |-> flags, group_order |-> order, split_depth |-> d]

\* MOPE filtering without automorphisms
FilterInputs ==
    UNION {{Input(g, mopes, TRUE, <<>>, <<>>, 0, d) :
               mopes \in MopeLists(edgeSize(g), MaxMopeEdge, MaxMopes),
               d \in Depths(g)} :
             g \in {K3, C4, K4, TwoK2}}
    \cup UNION {{Input(g, <<>>, FALSE, <<>>, <<>>, 0, d) : d \in Depths(g)} :
                  g \in {K3, C4, K4, TwoK2}}
\* K_4 in every edge order with the MOPE {0, 1, 2}
K4Inputs == {Input(g, <<{0, 1, 2}>>, TRUE, <<>>, <<>>, 0, 1) : g \in K4Orders}
\* short permutation lists with every choice of zero_flags
PermInputsOf(g, perms) ==
    {Input(g, mopes, mopes # <<>>, perms, flags, order, d) :
        mopes \in {<<>>, <<{0}>>},
        flags \in ZeroFlagLists(Len(perms)),
        order \in {Len(perms), OtherGroupOrder},
        d \in Depths(g)}
PermInputs ==
    UNION {UNION {PermInputsOf(g, perms) : perms \in PermLists(g)} :
             g \in {K3, C4}}
\* the whole automorphism group
GroupInputs ==
    UNION {{Input(g, <<>>, filt, SortedSeq(AutPerms(g)), <<>>,
                  Cardinality(AutPerms(g)), d) :
               filt \in BOOLEAN, d \in Depths(g)} :
             g \in {K3, C4, K4, K4Star, K4Path}}

ValidInput(in) ==
    /\ in.split_depth \in 1..(edgeSize(in.G) - 1)
    /\ in.group_order > 0 \/ ~in.apply_burnside
    /\ \A k \in DOMAIN in.MOPEs : in.MOPEs[k] \subseteq 0..(edgeSize(in.G) - 1)
    /\ \A k \in DOMAIN in.edge_permutations :
          Len(in.edge_permutations[k]) = edgeSize(in.G)

PipelineInputs ==
    {in \in FilterInputs \cup K4Inputs \cup PermInputs \cup GroupInputs :
        ValidInput(in)}

\* ------------------------------------------------------------------------
\* State
\* ------------------------------------------------------------------------
VARIABLES
    grh_in,     \* edge_relabeling: the .grh text on stdin
    DG,         \* the Graph readGraph returns
    ordering,   \* the vertex ordering decompose returns
    edgePermutation, \* the edges in their new order
    grh_out,    \* the .grh text on stdout
    relabel_exit,    \* exit code of edge_relabeling
    epc,        \* position in main of edge_relabeling
    diagram,    \* count_invariant_trees: the input node table and its root
    work,       \* work[level][col]: the list of SpecNodes
    pools,      \* SpecNodes allocated in the pool of each level
    output,     \* the output node table
    outputRoot, \* the root of the output table
    countWork,  \* count of every output node, filled bottom-up
    row,        \* the level the loop of either phase is at
    returned,   \* the returned decimal string
    cpc,        \* position in count_invariant_trees
    argv,     \* the command line of main, without the program name
    G,        \* the input graph
    fm,       \* SpanningTree::fm
    edges,    \* UnfoldingFilter::edges (the MOPE)
    sf,       \* SymmetryFilter: edge_to_orbit, is_representative
    perm,     \* the edge permutation SymmetryFilter was built from
    e,        \* number of edges of the spec being walked
    level,    \* level of the next getChild call (of the last one once ended)
    state,    \* the spec's state at that level (comp array or bitmask)
    sel,      \* edges decided with value 1 so far
    result,   \* "root" | "running" | "accept" | "reject"
    input,    \* the files and options of main: MOPEs, edge_permutations, ...
    split_depth,           \* --split-depth of the current invocation
    pc,                    \* position of main
    dd,                    \* family of the live DdStructure
    p,                     \* partition being processed
    i,                     \* loop index (MOPE or automorphism)
    spanning_tree_count,
    non_overlapping_count,
    part_non_overlapping,
    invariant_counts,
    burnside_sum,
    nonisomorphic_count,
    warned,                \* the divisibility warning was written to stderr
    stdout,                \* the result JSON, once printed
    exit_code,
    first_out,             \* result JSON of the invocation without partitions
    dd_copy,               \* family of the live clone dd_copy
    alive                  \* the live DdStructure objects, oldest first

wvars == <<fm, edges, sf, perm, e, level, state, sel, result>>
rvars == <<dd, p, i, spanning_tree_count, non_overlapping_count,
           part_non_overlapping, invariant_counts, burnside_sum,
           nonisomorphic_count, warned, stdout, exit_code>>
lvars == <<dd_copy, alive>>
pvars == <<input, split_depth, pc, rvars, first_out, lvars>>
cvars == <<diagram, work, pools, output, outputRoot, countWork, row,
           returned, cpc>>
evars == <<grh_in, DG, ordering, edgePermutation, grh_out, relabel_exit,
           epc>>
vars == <<evars, cvars, argv, G, wvars, pvars>>

NoGraph == <<>>
NoFm == [maxF |-> 0]
NoSf == [edge_to_orbit |-> <<>>]
NoDd == {}
NoOutput == [printed |-> FALSE]
NoArgv == <<>>
Unset == <<>>

WalkIdle ==
    /\ fm = NoFm /\ edges = {} /\ sf = NoSf /\ perm = <<>> /\ e = 0
    /\ level = 0 /\ state = <<>> /\ sel = {} /\ result = "idle"

\* the locals of main before the pipeline starts
FreshRun ==
    /\ dd = NoDd /\ p = 0 /\ i = 0
    /\ spanning_tree_count = Unset /\ non_overlapping_count = Unset
    /\ part_non_overlapping = Unset /\ invariant_counts = <<>>
    /\ burnside_sum = Unset /\ nonisomorphic_count = Unset
    /\ warned = FALSE /\ stdout = NoOutput /\ exit_code = -1
    /\ dd_copy = NoDd /\ alive = <<>>

NoGrh == [printed |-> FALSE]
RelabelIdle ==
    /\ grh_in = NoGrh /\ DG = NoGraph /\ ordering = <<>>
    /\ edgePermutation = <<>> /\ grh_out = NoGrh /\ relabel_exit = -1
    /\ epc = "idle"

CountIdle ==
    /\ diagram = [root |-> ZeroTerminal, rows |-> <<>>]
    /\ work = <<>> /\ pools = <<>> /\ output = <<>>
    /\ outputRoot = NoId /\ countWork = <<>> /\ row = 0
    /\ returned = Unset /\ cpc = "idle"

PipeIdle ==
    /\ RelabelIdle
    /\ CountIdle
    /\ argv = NoArgv
    /\ input = [G |-> NoGraph] /\ split_depth = 0 /\ pc = "idle"
    /\ FreshRun /\ first_out = NoOutput

\* number of edges already decided on the walked path
Decided == IF result = "root" THEN 0
           ELSE IF result = "running" THEN e - level
           ELSE e - level + 1
\* the complete edge sets that extend the walked path
Completions == {sel \cup X : X \in SUBSET (Decided..(e - 1))}

Walk(c, value, st) ==
    /\ sel' = IF value = 1 THEN sel \cup {e - level} ELSE sel
    /\ state' = st
    /\ result' = IF c.ret = 0 THEN "reject"
                 ELSE IF c.ret = -1 THEN "accept" ELSE "running"
    /\ level' = IF c.ret > 0 THEN c.ret ELSE level

\* ---- SpanningTree walked along one decision path ------------------------
InitTree ==
    /\ G \in SmallGraphs \cup NamedGraphs
    /\ fm = FrontierManager(G)
    /\ e = edgeSize(G)
    /\ edges = {} /\ sf = NoSf /\ perm = <<>>
    /\ level = 0 /\ state = <<>> /\ sel = {} /\ result = "root"
    /\ PipeIdle

TreeRoot ==
    /\ result = "root"
    /\ LET r == ST_getRoot(G, fm)
       IN  /\ level' = r.ret
           /\ state' = r.data
           /\ result' = "running"
    /\ UNCHANGED <<evars, cvars, argv, G, fm, edges, sf, perm, e, sel, pvars>>

TreeChild ==
    /\ result = "running"
    /\ \E value \in {0, 1} :
          LET c == ST_getChild(G, fm, state, level, value)
          IN  Walk(c, value, c.data)
    /\ UNCHANGED <<evars, cvars, argv, G, fm, edges, sf, perm, e, pvars>>

NextTree == TreeRoot \/ TreeChild
SpecTree == InitTree /\ [][NextTree]_vars

\* ---- UnfoldingFilter walked along one decision path ---------------------
InitUnfold ==
    /\ e \in 1..MaxFilterEdges
    /\ edges \in EdgeSubsets(e)
    /\ G = NoGraph /\ fm = NoFm /\ sf = NoSf /\ perm = <<>>
    /\ level = 0 /\ state = {} /\ sel = {} /\ result = "root"
    /\ PipeIdle

UnfoldRoot ==
    /\ result = "root"
    /\ LET r == UF_getRoot(e, edges)
       IN  /\ level' = r.ret
           /\ state' = r.mate
           /\ result' = "running"
    /\ UNCHANGED <<evars, cvars, argv, G, fm, edges, sf, perm, e, sel, pvars>>

UnfoldChild ==
    /\ result = "running"
    /\ \E value \in {0, 1} :
          LET c == UF_getChild(e, state, level, value)
          IN  Walk(c, value, c.mate)
    /\ UNCHANGED <<evars, cvars, argv, G, fm, edges, sf, perm, e, pvars>>

NextUnfold == UnfoldRoot \/ UnfoldChild
SpecUnfold == InitUnfold /\ [][NextUnfold]_vars

\* ---- SymmetryFilter walked along one decision path ----------------------
InitSym ==
    /\ e \in 1..MaxFilterEdges
    /\ perm \in EdgePermutations(e)
    /\ sf = SymmetryFilter(e, perm)
    /\ G = NoGraph /\ fm = NoFm /\ edges = {}
    /\ level = 0 /\ state = {} /\ sel = {} /\ result = "root"
    /\ PipeIdle

SymRoot ==
    /\ result = "root"
    /\ LET r == Sym_getRoot(e)
       IN  /\ level' = r.ret
           /\ state' = r.mate
           /\ result' = "running"
    /\ UNCHANGED <<evars, cvars, argv, G, fm, edges, sf, perm, e, sel, pvars>>

SymChild ==
    /\ result = "running"
    /\ \E value \in {0, 1} :
          LET c == Sym_getChild(e, sf, state, level, value)
          IN  Walk(c, value, c.mate)
    /\ UNCHANGED <<evars, cvars, argv, G, fm, edges, sf, perm, e, pvars>>

NextSym == SymRoot \/ SymChild
SpecSym == InitSym /\ [][NextSym]_vars

\* ---- main: one invocation without partitions, then one with ------------
num_edges == edgeSize(G)
total == Len(input.edge_permutations)
Absent == <<>>

RECURSIVE SumCounts(_, _, _)
SumCounts(counts, k, acc) ==
    IF k > Len(counts) THEN acc
    ELSE SumCounts(counts, k + 1, bigint_add(acc, counts[k]))

InitPipe ==
    /\ RelabelIdle
    /\ CountIdle
    /\ argv = NoArgv
    /\ input \in PipelineInputs
    /\ G = input.G
    /\ WalkIdle
    /\ split_depth = 0
    /\ pc = "main"
    /\ FreshRun
    /\ first_out = NoOutput

Main ==
    /\ pc = "main"
    /\ pc' = IF split_depth > 0 THEN "part_init" ELSE "std_build"
    /\ UNCHANGED <<evars, cvars, argv, G, wvars, lvars, input, split_depth, rvars, first_out>>

AfterFilter == IF input.apply_burnside THEN "std_burnside_init" ELSE "output"

StdBuild ==
    /\ pc = "std_build"
    /\ dd' = ST_Family(G, FrontierManager(G))
    /\ alive' = Append(alive, "dd")
    /\ spanning_tree_count' = zddCardinality(dd')
    /\ non_overlapping_count' = zddCardinality(dd')
    /\ i' = 0
    /\ pc' = IF input.apply_filter /\ Len(input.MOPEs) > 0
             THEN "std_filter" ELSE AfterFilter
    /\ UNCHANGED <<evars, cvars, argv, G, wvars, dd_copy, input, split_depth, p, part_non_overlapping,
                   invariant_counts, burnside_sum, nonisomorphic_count,
                   warned, stdout, exit_code, first_out>>

StdFilter ==
    /\ pc = "std_filter"
    /\ dd' = FilterStep(dd, input.MOPEs, i, num_edges)
    /\ i' = i + 1
    /\ IF i + 1 = Len(input.MOPEs)
       THEN /\ non_overlapping_count' = zddCardinality(dd')
            /\ pc' = AfterFilter
       ELSE UNCHANGED <<non_overlapping_count, pc>>
    /\ UNCHANGED <<evars, cvars, argv, G, wvars, lvars, input, split_depth, p, spanning_tree_count,
                   part_non_overlapping, invariant_counts, burnside_sum,
                   nonisomorphic_count, warned, stdout, exit_code, first_out>>

StdBurnsideInit ==
    /\ pc = "std_burnside_init"
    /\ burnside_sum' = <<0>>
    /\ i' = 0
    /\ pc' = IF total = 0 THEN "std_burnside_end" ELSE "std_burnside"
    /\ UNCHANGED <<evars, cvars, argv, G, wvars, lvars, input, split_depth, dd, p, spanning_tree_count,
                   non_overlapping_count, part_non_overlapping,
                   invariant_counts, nonisomorphic_count, warned, stdout,
                   exit_code, first_out>>

StdBurnside ==
    /\ pc = "std_burnside"
    /\ IF has_zero_flags(input.zero_flags, total) /\ input.zero_flags[i + 1]
       THEN /\ invariant_counts' = Append(invariant_counts, <<0>>)
            /\ i' = i + 1
            /\ pc' = IF i + 1 = total THEN "std_burnside_end"
                     ELSE "std_burnside"
            /\ UNCHANGED <<burnside_sum, dd, lvars>>
       ELSE IF is_identity(input.edge_permutations[i + 1], num_edges)
       THEN LET count == InvariantCount(dd, input.edge_permutations[i + 1],
                                        num_edges, zddCardinality(dd))
            IN  /\ invariant_counts' = Append(invariant_counts, count)
                /\ burnside_sum' = bigint_add(burnside_sum, count)
                /\ i' = i + 1
                /\ pc' = IF i + 1 = total THEN "std_burnside_end"
                         ELSE "std_burnside"
                /\ UNCHANGED <<dd, lvars>>
       ELSE LET r == CloneSubset(dd, input.edge_permutations[i + 1],
                                 num_edges)
            IN  /\ dd' = r.dd
                /\ dd_copy' = r.dd_copy
                /\ alive' = Append(alive, "dd_copy")
                /\ pc' = "std_clone"
                /\ UNCHANGED <<i, invariant_counts, burnside_sum>>
    /\ UNCHANGED <<evars, cvars, argv, G, wvars, input, split_depth, p, spanning_tree_count,
                   non_overlapping_count, part_non_overlapping,
                   nonisomorphic_count, warned, stdout, exit_code, first_out>>

\* the clone is counted and goes out of scope
StdCloneCount ==
    /\ pc = "std_clone"
    /\ LET count == zddCardinality(dd_copy)
       IN  /\ invariant_counts' = Append(invariant_counts, count)
           /\ burnside_sum' = bigint_add(burnside_sum, count)
    /\ dd_copy' = NoDd
    /\ alive' = SubSeq(alive, 1, Len(alive) - 1)
    /\ i' = i + 1
    /\ pc' = IF i + 1 = total THEN "std_burnside_end" ELSE "std_burnside"
    /\ UNCHANGED <<evars, cvars, argv, G, wvars, input, split_depth, dd, p, spanning_tree_count,
                   non_overlapping_count, part_non_overlapping,
                   nonisomorphic_count, warned, stdout, exit_code, first_out>>

StdBurnsideEnd ==
    /\ pc = "std_burnside_end"
    /\ LET d == bigint_divide(burnside_sum, input.group_order)
       IN  /\ nonisomorphic_count' = d.quotient
           /\ warned' = (d.remainder # 0)
    /\ pc' = "output"
    /\ UNCHANGED <<evars, cvars, argv, G, wvars, lvars, input, split_depth, dd, p, i,
                   spanning_tree_count, non_overlapping_count,
                   part_non_overlapping, invariant_counts, burnside_sum,
                   stdout, exit_code, first_out>>

PartInit ==
    /\ pc = "part_init"
    /\ spanning_tree_count' = <<0>>
    /\ non_overlapping_count' = <<0>>
    /\ burnside_sum' = <<0>>
    /\ invariant_counts' = IF input.apply_burnside
                           THEN [k \in 1..total |-> <<0>>]
                           ELSE invariant_counts
    /\ p' = 0
    /\ pc' = "part_build"
    /\ UNCHANGED <<evars, cvars, argv, G, wvars, lvars, input, split_depth, dd, i, part_non_overlapping,
                   nonisomorphic_count, warned, stdout, exit_code, first_out>>

PartBuild ==
    /\ pc = "part_build"
    /\ dd' = Part_Family(G, FrontierManager(G), split_depth, p)
    /\ alive' = Append(alive, "dd")
    /\ spanning_tree_count' =
          bigint_add(spanning_tree_count, zddCardinality(dd'))
    /\ i' = 0
    /\ pc' = IF input.apply_filter /\ input.MOPEs # <<>>
             THEN "part_filter" ELSE "part_count"
    /\ UNCHANGED <<evars, cvars, argv, G, wvars, dd_copy, input, split_depth, p, non_overlapping_count,
                   part_non_overlapping, invariant_counts, burnside_sum,
                   nonisomorphic_count, warned, stdout, exit_code, first_out>>

PartFilter ==
    /\ pc = "part_filter"
    /\ dd' = FilterStep(dd, input.MOPEs, i, num_edges)
    /\ i' = i + 1
    /\ pc' = IF i + 1 = Len(input.MOPEs) THEN "part_count" ELSE "part_filter"
    /\ UNCHANGED <<evars, cvars, argv, G, wvars, lvars, input, split_depth, p, spanning_tree_count,
                   non_overlapping_count, part_non_overlapping,
                   invariant_counts, burnside_sum, nonisomorphic_count,
                   warned, stdout, exit_code, first_out>>

PartCount ==
    /\ pc = "part_count"
    /\ part_non_overlapping' = zddCardinality(dd)
    /\ non_overlapping_count' =
          bigint_add(non_overlapping_count, zddCardinality(dd))
    /\ i' = 0
    /\ pc' = IF input.apply_burnside /\ zddCardinality(dd) # <<0>>
                /\ total > 0
             THEN "part_burnside" ELSE "part_release"
    /\ UNCHANGED <<evars, cvars, argv, G, wvars, lvars, input, split_depth, dd, p, spanning_tree_count,
                   invariant_counts, burnside_sum, nonisomorphic_count,
                   warned, stdout, exit_code, first_out>>

PartBurnside ==
    /\ pc = "part_burnside"
    /\ IF has_zero_flags(input.zero_flags, total) /\ input.zero_flags[i + 1]
       THEN /\ i' = i + 1
            /\ pc' = IF i + 1 = total THEN "part_release"
                     ELSE "part_burnside"
            /\ UNCHANGED <<invariant_counts, dd, lvars>>
       ELSE IF is_identity(input.edge_permutations[i + 1], num_edges)
       THEN LET count == InvariantCount(dd, input.edge_permutations[i + 1],
                                        num_edges, part_non_overlapping)
            IN  /\ invariant_counts' =
                      [invariant_counts EXCEPT
                         ![i + 1] = bigint_add(invariant_counts[i + 1], count)]
                /\ i' = i + 1
                /\ pc' = IF i + 1 = total THEN "part_release"
                         ELSE "part_burnside"
                /\ UNCHANGED <<dd, lvars>>
       ELSE LET r == CloneSubset(dd, input.edge_permutations[i + 1],
                                 num_edges)
            IN  /\ dd' = r.dd
                /\ dd_copy' = r.dd_copy
                /\ alive' = Append(alive, "dd_copy")
                /\ pc' = "part_clone"
                /\ UNCHANGED <<i, invariant_counts>>
    /\ UNCHANGED <<evars, cvars, argv, G, wvars, input, split_depth, p, spanning_tree_count,
                   non_overlapping_count, part_non_overlapping, burnside_sum,
                   nonisomorphic_count, warned, stdout, exit_code, first_out>>

\* the clone is counted and goes out of scope
PartCloneCount ==
    /\ pc = "part_clone"
    /\ invariant_counts' =
          [invariant_counts EXCEPT
             ![i + 1] = bigint_add(invariant_counts[i + 1],
                                   zddCardinality(dd_copy))]
    /\ dd_copy' = NoDd
    /\ alive' = SubSeq(alive, 1, Len(alive) - 1)
    /\ i' = i + 1
    /\ pc' = IF i + 1 = total THEN "part_release" ELSE "part_burnside"
    /\ UNCHANGED <<evars, cvars, argv, G, wvars, input, split_depth, dd, p, spanning_tree_count,
                   non_overlapping_count, part_non_overlapping, burnside_sum,
                   nonisomorphic_count, warned, stdout, exit_code, first_out>>

PartRelease ==
    /\ pc = "part_release"
    /\ dd' = NoDd
    /\ alive' = SubSeq(alive, 1, Len(alive) - 1)
    /\ p' = p + 1
    /\ pc' = IF p + 1 = Pow2(split_depth) THEN "part_final" ELSE "part_build"
    /\ UNCHANGED <<evars, cvars, argv, G, wvars, dd_copy, input, split_depth, i, spanning_tree_count,
                   non_overlapping_count, part_non_overlapping,
                   invariant_counts, burnside_sum, nonisomorphic_count,
                   warned, stdout, exit_code, first_out>>

PartFinal ==
    /\ pc = "part_final"
    /\ IF input.apply_burnside
       THEN LET sum == SumCounts(invariant_counts, 1, <<0>>)
                d == bigint_divide(sum, input.group_order)
            IN  /\ burnside_sum' = sum
                /\ nonisomorphic_count' = d.quotient
                /\ warned' = (d.remainder # 0)
       ELSE UNCHANGED <<burnside_sum, nonisomorphic_count, warned>>
    /\ non_overlapping_count' = IF ~input.apply_filter
                                THEN spanning_tree_count
                                ELSE non_overlapping_count
    /\ pc' = "output"
    /\ UNCHANGED <<evars, cvars, argv, G, wvars, lvars, input, split_depth, dd, p, i,
                   spanning_tree_count, part_non_overlapping,
                   invariant_counts, stdout, exit_code, first_out>>

ResultJson ==
    [printed |-> TRUE,
     edges |-> num_edges,
     spanning_tree_count |-> spanning_tree_count,
     filter_applied |-> input.apply_filter,
     non_overlapping_count |->
        IF input.apply_filter THEN non_overlapping_count ELSE Absent,
     burnside_applied |-> input.apply_burnside,
     group_order |-> IF input.apply_burnside THEN input.group_order ELSE 0,
     burnside_sum |-> IF input.apply_burnside THEN burnside_sum ELSE Absent,
     nonisomorphic_count |->
        IF input.apply_burnside THEN nonisomorphic_count ELSE Absent,
     invariant_counts |->
        IF input.apply_burnside THEN invariant_counts ELSE Absent]

Output ==
    /\ pc = "output"
    /\ stdout' = ResultJson
    /\ exit_code' = 0
    /\ alive' = <<>>
    /\ pc' = "done"
    /\ UNCHANGED <<evars, cvars, argv, G, wvars, dd_copy, input, split_depth, dd, p, i,
                   spanning_tree_count, non_overlapping_count,
                   part_non_overlapping, invariant_counts, burnside_sum,
                   nonisomorphic_count, warned, first_out>>

\* the same files are then given to main with --split-depth d
Rerun ==
    /\ pc = "done"
    /\ split_depth = 0
    /\ first_out' = [stdout EXCEPT !.printed = TRUE] @@ [warned |-> warned]
    /\ split_depth' = input.split_depth
    /\ pc' = "main"
    /\ dd' = NoDd /\ p' = 0 /\ i' = 0
    /\ spanning_tree_count' = Unset /\ non_overlapping_count' = Unset
    /\ part_non_overlapping' = Unset /\ invariant_counts' = <<>>
    /\ burnside_sum' = Unset /\ nonisomorphic_count' = Unset
    /\ warned' = FALSE /\ stdout' = NoOutput /\ exit_code' = -1
    /\ UNCHANGED <<evars, cvars, argv, G, wvars, input, lvars>>

Next ==
    \/ Main
    \/ StdBuild \/ StdFilter \/ StdBurnsideInit \/ StdBurnside
    \/ StdCloneCount \/ StdBurnsideEnd
    \/ PartInit \/ PartBuild \/ PartFilter \/ PartCount \/ PartBurnside
    \/ PartCloneCount \/ PartRelease \/ PartFinal
    \/ Output \/ Rerun
Spec == InitPipe /\ [][Next]_vars

\* ---- main: start-up, from the command line to the pipeline -------------
\* a command-line word or a token of a JSON text
\* a number is kept as its text: a sign and a decimal string
Word(name) == [kind |-> "word", name |-> name, negative |-> FALSE, digits |-> <<>>]
Digits(neg, str) == [kind |-> "int", name |-> "", negative |-> neg, digits |-> str]
Num(n) == IF n < 0 THEN Digits(TRUE, ToDecimal(0 - n))
          ELSE Digits(FALSE, ToDecimal(n))
IsWord(tok, name) == tok.kind = "word" /\ tok.name = name

INT_MAX == (Pow2(30) - 1) + Pow2(30)
INT_MIN == (0 - INT_MAX) - 1
\* the decimal text of INT_MAX + 1
AboveIntMax ==
    LET str == ToDecimal(INT_MAX)
    IN  [str EXCEPT ![Len(str)] = str[Len(str)] + 1]

RECURSIVE stoi_loop(_, _, _)
\* digit by digit; -1 once the value has left the range of int
stoi_loop(str, k, acc) ==
    IF k > Len(str) THEN acc
    ELSE IF acc > (INT_MAX - str[k]) \div 10 THEN -1
    ELSE stoi_loop(str, k + 1, 10 * acc + str[k])
\* std::stoi: the value, or an exception (invalid_argument, out_of_range)
stoi(tok) ==
    IF tok.kind # "int" THEN [thrown |-> TRUE, value |-> 0]
    ELSE IF tok.negative /\ tok.digits = AboveIntMax
    THEN [thrown |-> FALSE, value |-> INT_MIN]
    ELSE LET n == stoi_loop(tok.digits, 1, 0) IN
         IF n < 0 THEN [thrown |-> TRUE, value |-> 0]
         ELSE [thrown |-> FALSE, value |-> IF tok.negative THEN 0 - n ELSE n]

MaxSplitDepth == 30
MaxSupportedEdges == 448
\* exit status of a process ended by an uncaught exception (SIGABRT)
Aborted == 128 + 6

NoParse ==
    [outcome |-> "ok", grh_file |-> "", edge_sets_file |-> "",
     automorphisms_file |-> "", split_depth |-> 0]
RECURSIVE ParseArgv(_, _, _)
ParseArgv(args, k, st) ==
    IF k > Len(args)
    THEN IF st.grh_file = "" THEN [st EXCEPT !.outcome = "exit1"] ELSE st
    ELSE
    LET arg == args[k] IN
    IF IsWord(arg, "--automorphisms") /\ k + 1 <= Len(args)
    THEN ParseArgv(args, k + 2,
                   [st EXCEPT !.automorphisms_file = args[k + 1].name])
    ELSE IF IsWord(arg, "--split-depth") /\ k + 1 <= Len(args)
    THEN LET n == stoi(args[k + 1]) IN
         IF n.thrown THEN [st EXCEPT !.outcome = "abort"]
         ELSE IF n.value < 0 \/ n.value > MaxSplitDepth
         THEN [st EXCEPT !.outcome = "exit1", !.split_depth = n.value]
         ELSE ParseArgv(args, k + 2, [st EXCEPT !.split_depth = n.value])
    ELSE IF st.grh_file = ""
    THEN ParseArgv(args, k + 1, [st EXCEPT !.grh_file = arg.name])
    ELSE IF st.edge_sets_file = ""
    THEN ParseArgv(args, k + 1, [st EXCEPT !.edge_sets_file = arg.name])
    ELSE [st EXCEPT !.outcome = "exit1"]

\* ---- the files ----------------------------------------------------------
GrhFile(g) == [kind |-> "grh", graph |-> g]
MalformedGrh == [kind |-> "malformed"]
Unreadable == [kind |-> "unreadable"]
\* a line of edge_sets.jsonl
EmptyLine == [text |-> "empty", tokens |-> <<>>]
NoBracketLine == [text |-> "nobracket", tokens |-> <<>>]
ListLine(tokens) == [text |-> "list", tokens |-> tokens]
JsonlFile(lines) == [kind |-> "jsonl", lines |-> lines]
AutFile(keys, order, perms, flags) ==
    [kind |-> "json", keys |-> keys, group_order |-> order,
     edge_permutations |-> perms, zero_flags |-> flags]

PathGraph(n) == [k \in 1..n |-> <<k, k + 1>>]
NumSeq(s) == [k \in DOMAIN s |-> Num(s[k])]
NumSeqs(ss) == [k \in DOMAIN ss |-> NumSeq(ss[k])]
AllKeys == {"group_order", "edge_permutations", "zero_flags"}
K3Perms == SortedSeq(AutPerms(K3))
C4Perms == SortedSeq(AutPerms(C4))

Files ==
    ("k3.grh" :> GrhFile(K3)) @@ ("c4.grh" :> GrhFile(C4))
    @@ ("big.grh" :> GrhFile(PathGraph(MaxSupportedEdges + 1)))
    @@ ("bad.grh" :> MalformedGrh)
    @@ ("m.jsonl" :> JsonlFile(<<ListLine(<<Num(0), Num(1)>>),
                                 ListLine(<<Num(2)>>)>>))
    @@ ("blank.jsonl" :> JsonlFile(<<EmptyLine, ListLine(<<Num(1)>>),
                                     ListLine(<<>>)>>))
    @@ ("text.jsonl" :> JsonlFile(<<NoBracketLine>>))
    @@ ("badtok.jsonl" :> JsonlFile(<<ListLine(<<Num(0), Word("x")>>)>>))
    @@ ("k3.json" :> AutFile(AllKeys \ {"zero_flags"}, Num(6),
                             NumSeqs(SubSeq(K3Perms, 1, 2)), <<>>))
    @@ ("c4.json" :> AutFile(AllKeys, Num(8), NumSeqs(C4Perms),
                             [k \in 1..Len(C4Perms) |-> k = 3]))
    @@ ("short.json" :> AutFile(AllKeys, Num(6),
                                NumSeqs(SubSeq(K3Perms, 1, 2)), <<TRUE>>))
    @@ ("long.json" :> AutFile(AllKeys, Num(6),
                               NumSeqs(SubSeq(K3Perms, 1, 2)),
                               <<TRUE, TRUE, FALSE>>))
    @@ ("flagged.json" :> AutFile(AllKeys, Num(6),
                                  NumSeqs(SubSeq(K3Perms, 1, 2)),
                                  <<TRUE, FALSE>>))
    @@ ("noorder.json" :> AutFile({"edge_permutations"}, Num(0),
                                  NumSeqs(K3Perms), <<>>))
    @@ ("noperm.json" :> AutFile({"group_order"}, Num(6), <<>>, <<>>))
    @@ ("badorder.json" :> AutFile(AllKeys, Word("six"),
                                   NumSeqs(K3Perms), <<>>))
    @@ ("badperm.json" :> AutFile(AllKeys, Num(6),
                                  <<<<Num(0), Word("x"), Num(2)>>>>, <<>>))
ReadFile(name) == IF name \in DOMAIN Files THEN Files[name] ELSE Unreadable

\* ---- the loaders --------------------------------------------------------
RECURSIVE stoi_all(_, _, _)
\* the tokens of one bracketed list, converted in order
stoi_all(tokens, k, acc) ==
    IF k > Len(tokens) THEN [thrown |-> FALSE, values |-> acc]
    ELSE LET n == stoi(tokens[k]) IN
         IF n.thrown THEN [thrown |-> TRUE, values |-> acc]
         ELSE stoi_all(tokens, k + 1, Append(acc, n.value))

extract_edges_from_json(json_line) ==
    IF json_line.text # "list" THEN [thrown |-> FALSE, edges |-> {}]
    ELSE LET r == stoi_all(json_line.tokens, 1, <<>>)
         IN  [thrown |-> r.thrown, edges |-> Range(r.values)]

RECURSIVE load_mopes_loop(_, _, _)
load_mopes_loop(lines, k, MOPEs) ==
    IF k > Len(lines) THEN [thrown |-> FALSE, MOPEs |-> MOPEs]
    ELSE IF lines[k].text = "empty" THEN load_mopes_loop(lines, k + 1, MOPEs)
    ELSE LET r == extract_edges_from_json(lines[k]) IN
         IF r.thrown THEN [thrown |-> TRUE, MOPEs |-> MOPEs]
         ELSE IF r.edges # {}
         THEN load_mopes_loop(lines, k + 1, Append(MOPEs, r.edges))
         ELSE load_mopes_loop(lines, k + 1, MOPEs)

\* a file that cannot be opened is reported and gives the empty list
load_mopes_from_edge_sets(edge_sets_file) ==
    IF ReadFile(edge_sets_file).kind = "unreadable"
    THEN [thrown |-> FALSE, MOPEs |-> <<>>]
    ELSE load_mopes_loop(ReadFile(edge_sets_file).lines, 1, <<>>)

RECURSIVE load_perms_loop(_, _, _)
load_perms_loop(arrays, k, acc) ==
    IF k > Len(arrays) THEN [thrown |-> FALSE, perms |-> acc]
    ELSE LET r == stoi_all(arrays[k], 1, <<>>) IN
         IF r.thrown THEN [thrown |-> TRUE, perms |-> acc]
         ELSE IF r.values # <<>>
         THEN load_perms_loop(arrays, k + 1, Append(acc, r.values))
         ELSE load_perms_loop(arrays, k + 1, acc)

\* the digits that follow "group_order":, converted
group_order_of(tok) ==
    IF tok.kind = "int" /\ ~tok.negative THEN stoi(tok)
    ELSE [thrown |-> TRUE, value |-> 0]

NoAutomorphisms(outcome) ==
    [outcome |-> outcome, group_order |-> 0, edge_permutations |-> <<>>,
     zero_flags |-> <<>>]
load_automorphisms(automorphisms_file) ==
    LET f == ReadFile(automorphisms_file) IN
    IF f.kind = "unreadable" THEN NoAutomorphisms("false")
    ELSE IF "group_order" \notin f.keys THEN NoAutomorphisms("false")
    ELSE LET n == group_order_of(f.group_order) IN
    IF n.thrown THEN NoAutomorphisms("abort")
    ELSE IF "edge_permutations" \notin f.keys THEN NoAutomorphisms("false")
    ELSE LET r == load_perms_loop(f.edge_permutations, 1, <<>>) IN
    IF r.thrown THEN NoAutomorphisms("abort")
    ELSE [outcome |-> "true", group_order |-> n.value,
          edge_permutations |-> r.perms,
          zero_flags |-> IF "zero_flags" \in f.keys THEN f.zero_flags
                         ELSE <<>>]

\* ---- the command lines --------------------------------------------------
GoodGraphs == {"k3.grh", "c4.grh"}
GraphNames == GoodGraphs \cup {"big.grh", "bad.grh", "none.grh"}
MopeNames == {"m.jsonl", "blank.jsonl", "text.jsonl", "badtok.jsonl",
              "none.jsonl"}
AutNames == {"k3.json", "c4.json", "short.json", "long.json", "flagged.json",
             "noorder.json", "noperm.json",
             "badorder.json", "badperm.json", "none.json"}
SplitDepthArgs ==
    {Num(d) : d \in (-1..(MaxDepth + 2))
                    \cup {MaxSplitDepth, MaxSplitDepth + 1}}
    \cup {Digits(FALSE, AboveIntMax), Word("x")}
CommandLines ==
    {<<>>, <<Word("--split-depth"), Num(1)>>}
    \cup {<<Word(g)>> : g \in GraphNames}
    \cup {<<Word(g), Word(f)>> :
             g \in GoodGraphs, f \in {"--split-depth", "--automorphisms"}}
    \cup {<<Word(g), Word(m)>> : g \in GoodGraphs, m \in MopeNames}
    \cup {<<Word(g), Word(m), Word("extra")>> :
             g \in GraphNames, m \in {"m.jsonl", "none.jsonl"}}
    \cup {<<Word(g), Word("--split-depth"), d>> :
             g \in GraphNames, d \in SplitDepthArgs}
    \cup {<<Word(g), Word("--automorphisms"), Word(a)>> :
             g \in GoodGraphs, a \in AutNames}
    \cup {<<Word(g), Word(m), Word("--automorphisms"), Word(a),
            Word("--split-depth"), d>> :
             g \in GoodGraphs, m \in {"m.jsonl", "none.jsonl"},
             a \in {"k3.json", "c4.json", "short.json", "long.json",
                    "flagged.json", "none.json"},
             d \in {Num(0), Num(1), Num(MaxDepth + 2)}}

\* ---- the steps of main before the pipeline ------------------------------
InitArgs ==
    /\ RelabelIdle
    /\ CountIdle
    /\ argv \in CommandLines
    /\ G = NoGraph
    /\ WalkIdle
    /\ input = [G |-> NoGraph]
    /\ split_depth = 0
    /\ pc = "parse_args"
    /\ FreshRun
    /\ first_out = NoOutput

ExitWith(code) == exit_code' = code /\ pc' = "exit"

ParseArgs ==
    /\ pc = "parse_args"
    /\ LET r == ParseArgv(argv, 1, NoParse) IN
       IF r.outcome = "ok"
       THEN /\ input' = Input(NoGraph, <<>>, r.edge_sets_file # "", <<>>,
                              <<>>, 0, r.split_depth)
                        @@ [grh_file |-> r.grh_file,
                            edge_sets_file |-> r.edge_sets_file,
                            automorphisms_file |-> r.automorphisms_file]
            /\ split_depth' = r.split_depth
            /\ pc' = "read_graph"
            /\ UNCHANGED exit_code
       ELSE /\ ExitWith(IF r.outcome = "abort" THEN Aborted ELSE 1)
            /\ UNCHANGED <<input, split_depth>>
    /\ UNCHANGED <<evars, cvars, argv, G, wvars, lvars, dd, p, i, spanning_tree_count,
                   non_overlapping_count, part_non_overlapping,
                   invariant_counts, burnside_sum, nonisomorphic_count,
                   warned, stdout, first_out>>

ReadGraph ==
    /\ pc = "read_graph"
    /\ LET f == ReadFile(input.grh_file) IN
       IF f.kind # "grh"
       THEN ExitWith(1) /\ UNCHANGED <<G, input>>
       ELSE /\ G' = f.graph
            /\ input' = [input EXCEPT !.G = f.graph]
            /\ IF edgeSize(f.graph) > MaxSupportedEdges
               THEN ExitWith(1)
               ELSE IF split_depth > 0 /\ split_depth >= edgeSize(f.graph)
               THEN ExitWith(1)
               ELSE pc' = "load_mopes" /\ UNCHANGED exit_code
    /\ UNCHANGED <<evars, cvars, argv, wvars, lvars, split_depth, dd, p, i,
                   spanning_tree_count, non_overlapping_count,
                   part_non_overlapping, invariant_counts, burnside_sum,
                   nonisomorphic_count, warned, stdout, first_out>>

LoadMopes ==
    /\ pc = "load_mopes"
    /\ IF input.apply_filter
       THEN LET r == load_mopes_from_edge_sets(input.edge_sets_file) IN
            IF r.thrown
            THEN ExitWith(Aborted) /\ UNCHANGED input
            ELSE /\ input' = [input EXCEPT !.MOPEs = r.MOPEs]
                 /\ pc' = "load_automorphisms"
                 /\ UNCHANGED exit_code
       ELSE pc' = "load_automorphisms" /\ UNCHANGED <<input, exit_code>>
    /\ UNCHANGED <<evars, cvars, argv, G, wvars, lvars, split_depth, dd, p, i,
                   spanning_tree_count, non_overlapping_count,
                   part_non_overlapping, invariant_counts, burnside_sum,
                   nonisomorphic_count, warned, stdout, first_out>>

LoadAutomorphisms ==
    /\ pc = "load_automorphisms"
    /\ IF input.automorphisms_file # ""
       THEN LET r == load_automorphisms(input.automorphisms_file) IN
            IF r.outcome = "abort"
            THEN ExitWith(Aborted) /\ UNCHANGED input
            ELSE IF r.outcome = "false"
            THEN ExitWith(1) /\ UNCHANGED input
            ELSE IF \E k \in DOMAIN r.edge_permutations :
                       Len(r.edge_permutations[k]) # num_edges
            THEN ExitWith(1) /\ UNCHANGED input
            ELSE /\ input' = [input EXCEPT
                                 !.apply_burnside = TRUE,
                                 !.group_order = r.group_order,
                                 !.edge_permutations = r.edge_permutations,
                                 !.zero_flags = r.zero_flags]
                 /\ pc' = "main"
                 /\ UNCHANGED exit_code
       ELSE pc' = "main" /\ UNCHANGED <<input, exit_code>>
    /\ UNCHANGED <<evars, cvars, argv, G, wvars, lvars, split_depth, dd, p, i,
                   spanning_tree_count, non_overlapping_count,
                   part_non_overlapping, invariant_counts, burnside_sum,
                   nonisomorphic_count, warned, stdout, first_out>>

NextArgs ==
    \/ ParseArgs \/ ReadGraph \/ LoadMopes \/ LoadAutomorphisms
    \/ Main
    \/ StdBuild \/ StdFilter \/ StdBurnsideInit \/ StdBurnside
    \/ StdCloneCount \/ StdBurnsideEnd
    \/ PartInit \/ PartBuild \/ PartFilter \/ PartCount \/ PartBurnside
    \/ PartCloneCount \/ PartRelease \/ PartFinal
    \/ Output
SpecArgs == InitArgs /\ [][NextArgs]_vars

\* ---- count_invariant_trees: one call ------------------------------------
CountFamilies(n) ==
    {F \in SUBSET EdgeSubsets(n) : Cardinality(F) <= MaxFamily}
\* the identity, the rotation of all edges and the swap of the first two
CountPerms(n) ==
    {identity_perm(n),
     [k \in 1..n |-> k % n],
     [k \in 1..n |-> IF k <= 2 /\ n >= 2 THEN 2 - k ELSE k - 1]}

InitCount ==
    /\ RelabelIdle
    /\ e \in 1..MaxCountEdges
    /\ perm \in CountPerms(e)
    /\ sf = count_orbits(e, perm)
    /\ diagram \in {NodeTable(reduced, e, F) :
                      reduced \in BOOLEAN, F \in CountFamilies(e)}
    /\ G = NoGraph /\ fm = NoFm /\ edges = {}
    /\ level = 0 /\ state = {} /\ sel = {} /\ result = "idle"
    /\ argv = NoArgv
    /\ input = [G |-> NoGraph] /\ split_depth = 0 /\ pc = "idle"
    /\ FreshRun /\ first_out = NoOutput
    /\ work = <<>> /\ pools = <<>> /\ output = <<>>
    /\ outputRoot = NoId /\ countWork = <<>> /\ row = 0
    /\ returned = Unset
    /\ cpc = "start"

Return(str) == returned' = str /\ cpc' = "done"

CountStart ==
    /\ cpc = "start"
    /\ IF diagram.root[1] <= 0
       THEN /\ Return(IF diagram.root = OneTerminal THEN <<1>> ELSE <<0>>)
            /\ UNCHANGED <<work, pools, output, outputRoot, row>>
       ELSE LET s == Synchronize(diagram.rows, sf, e, diagram.root,
                                 BitMask_zero, diagram.root[1], e)
            IN  IF s.ii <= 0 \/ s.kk <= 0
                THEN /\ Return(IF s.ii # 0 /\ s.kk # 0 THEN <<1>> ELSE <<0>>)
                     /\ UNCHANGED <<work, pools, output, outputRoot, row>>
                ELSE /\ work' = [Resized([l \in 1..s.ii |-> <<>>],
                                         diagram.rows, s.ii)
                                   EXCEPT ![s.ii][s.f[2]] =
                                      alloc_front(@, SpecNode(s.st, RootPtr))]
                     /\ pools' = [l \in 1..s.ii |-> IF l = s.ii THEN 1 ELSE 0]
                     /\ output' = [l \in 1..s.ii |-> <<>>]
                     /\ row' = s.ii
                     /\ cpc' = "pass1"
                     /\ UNCHANGED <<outputRoot, returned>>
    /\ UNCHANGED <<diagram, countWork, argv, G, wvars, pvars,
                   evars>>

Phase1_Pass1 ==
    /\ cpc = "pass1"
    /\ LET w == Resized(work, diagram.rows, row)
           r == Pass1(row, 0, RowSize(diagram.rows, row),
                      [work |-> w[row], mm |-> 0,
                       tab |-> [output |-> output, outputRoot |-> outputRoot]])
       IN  /\ work' = [w EXCEPT ![row] = r.work]
           /\ output' = initRow(r.tab.output, row, r.mm)
           /\ outputRoot' = r.tab.outputRoot
    /\ cpc' = "pass2"
    /\ UNCHANGED <<diagram, pools, countWork, row, returned, argv, G, wvars,
                   pvars,
                   evars>>

Phase1_Pass2 ==
    /\ cpc = "pass2"
    /\ LET r == Pass2(diagram.rows, sf, e, row, 0, 1, 0,
                      [work |-> work, pools |-> pools,
                       tab |-> [output |-> output, outputRoot |-> outputRoot]])
       IN  /\ work' = r.work
           /\ pools' = r.pools
           /\ output' = r.tab.output
    /\ cpc' = "clear"
    /\ UNCHANGED <<diagram, outputRoot, countWork, row, returned, argv, G,
                   wvars, pvars,
                   evars>>

\* work[i].clear(); pools[i].clear()
ReleaseLevel_Keep(table, l, empty) == table
ReleaseLevel(table, l, empty) == [table EXCEPT ![l] = empty]

Phase1_Clear ==
    /\ cpc = "clear"
    /\ work' = ReleaseLevel(work, row, <<>>)
    /\ pools' = ReleaseLevel(pools, row, 0)
    /\ IF row > 1
       THEN row' = row - 1 /\ cpc' = "pass1"
       ELSE row' = 0 /\ cpc' = "phase2"
    /\ UNCHANGED <<diagram, output, outputRoot, countWork, returned, argv, G,
                   wvars, pvars,
                   evars>>

Phase2_Start ==
    /\ cpc = "phase2"
    /\ work' = <<>> /\ pools' = <<>>
    /\ IF outputRoot[1] <= 0
       THEN /\ Return(IF outputRoot = OneTerminal THEN <<1>> ELSE <<0>>)
            /\ UNCHANGED <<countWork, row>>
       ELSE /\ countWork' = [l \in 0..outputRoot[1] |->
                               IF l = 0 THEN [c \in 0..1 |-> c] ELSE <<>>]
            /\ row' = 1
            /\ cpc' = "count"
            /\ UNCHANGED returned
    /\ UNCHANGED <<diagram, output, outputRoot, argv, G, wvars, pvars,
                   evars>>

Phase2_Level ==
    /\ cpc = "count"
    /\ row <= outputRoot[1]
    /\ countWork' = [countWork EXCEPT ![row] =
                        [j \in DOMAIN output[row] |->
                            CountNode(countWork, output[row][j])]]
    /\ row' = row + 1
    /\ UNCHANGED <<diagram, work, pools, output, outputRoot, returned, cpc,
                   argv, G, wvars, pvars,
                   evars>>

Phase2_Return ==
    /\ cpc = "count"
    /\ row > outputRoot[1]
    /\ Return(ToDecimal(countWork[outputRoot[1]][outputRoot[2]]))
    /\ UNCHANGED <<diagram, work, pools, output, outputRoot, countWork, row,
                   argv, G, wvars, pvars,
                   evars>>

NextCount ==
    \/ CountStart
    \/ Phase1_Pass1 \/ Phase1_Pass2 \/ Phase1_Clear
    \/ Phase2_Start \/ Phase2_Level \/ Phase2_Return
SpecCount == InitCount /\ [][NextCount]_vars

\* ---- edge_relabeling: one run of main -----------------------------------
InitRelabel ==
    /\ grh_in \in GrhTexts
    /\ DG = NoGraph /\ ordering = <<>> /\ edgePermutation = <<>>
    /\ grh_out = NoGrh /\ relabel_exit = -1
    /\ epc = "read"
    /\ CountIdle
    /\ argv = NoArgv
    /\ G = NoGraph
    /\ WalkIdle
    /\ input = [G |-> NoGraph] /\ split_depth = 0 /\ pc = "idle"
    /\ FreshRun /\ first_out = NoOutput

RelabelRead ==
    /\ epc = "read"
    /\ DG' = readGraph(grh_in)
    /\ epc' = "decompose"
    /\ UNCHANGED <<grh_in, ordering, edgePermutation, grh_out, relabel_exit,
                   cvars, argv, G, wvars, pvars>>

RelabelDecompose ==
    /\ epc = "decompose"
    /\ ordering' \in decompose(DG)
    /\ epc' = "convert"
    /\ UNCHANGED <<grh_in, DG, edgePermutation, grh_out, relabel_exit,
                   cvars, argv, G, wvars, pvars>>

RelabelConvert ==
    /\ epc = "convert"
    /\ edgePermutation' = convertEdgePermutation(DG, ordering)
    /\ epc' = "emit"
    /\ UNCHANGED <<grh_in, DG, ordering, grh_out, relabel_exit,
                   cvars, argv, G, wvars, pvars>>

RelabelEmit ==
    /\ epc = "emit"
    /\ IF Len(edgePermutation) # DG.m
       THEN relabel_exit' = 1 /\ UNCHANGED grh_out
       ELSE /\ grh_out' =
                 [printed |-> TRUE, n |-> DG.n, m |-> Len(edgePermutation),
                  lines |-> [k \in DOMAIN edgePermutation |->
                               <<edgePermutation[k][1] + 1,
                                 edgePermutation[k][2] + 1>>]]
            /\ relabel_exit' = 0
    /\ epc' = "done"
    /\ UNCHANGED <<grh_in, DG, ordering, edgePermutation,
                   cvars, argv, G, wvars, pvars>>

NextRelabel ==
    RelabelRead \/ RelabelDecompose \/ RelabelConvert \/ RelabelEmit
SpecRelabel == InitRelabel /\ [][NextRelabel]_vars

\* ========================================================================
\* Claims
\* ========================================================================

\* C1: the decision paths SpanningTree accepts are exactly the spanning
\* trees of the graph: an accepted path is a spanning tree (accepted at
\* level 1, after getRoot returned |E|), a rejected path has no spanning
\* tree among its completions, and so the accepted family has as many
\* members as the graph has spanning trees (16 for K_4, 384 for Q_3, 0 for a
\* disconnected graph).
ThmC1_SpanningTreeExact ==
    /\ result = "running" => level \in 1..e
    /\ result = "accept" => level = 1 /\ IsSpanningTree(G, sel)
    /\ result = "reject" => \A T \in Completions : ~IsSpanningTree(G, T)
    /\ (result = "running" /\ level = e) =>
          /\ ST_Family(G, fm) = SpanningTrees(G)
          /\ G \in {K4, K4Star, K4Path} => Cardinality(ST_Family(G, fm)) = 16
          /\ G = Q3 => Cardinality(ST_Family(G, fm)) = 384
          /\ G \in {TwoK2, TwoTriangles} => ST_Family(G, fm) = {}

WitC1_TreeAccepted ==
    /\ result = "accept"
    /\ G = Q3
    /\ Cardinality(sel) = 7

\* C2: UnfoldingFilter(M) rejects an edge set S if and only if S contains
\* every edge of M, and accepts every other S.
\* (Stated for the non-empty M that the MOPE loader passes on.)
CexC2_RejectsIffContainsMope ==
    edges # {} =>
        /\ result = "accept" => ~(edges \subseteq sel)
        /\ result = "reject" => \A T \in Completions : edges \subseteq T

\* C3: SymmetryFilter(g) accepts S if and only if g(S) = S, that is every
\* g-orbit of edges lies entirely inside S or entirely outside S.
ThmC3_AcceptsIffInvariant ==
    /\ result = "accept" => level = 1 /\ Image(perm, sel) = sel
    /\ result = "reject" => \A T \in Completions : Image(perm, T) # T

WitC3_InvariantAccepted ==
    /\ result = "accept"
    /\ e = MaxFilterEdges
    /\ \E j \in 0..(e - 1) : perm[j + 1] # j /\ j \in sel
    /\ \E j \in 0..(e - 1) : perm[j + 1] # j /\ j \notin sel

\* ---- reference values for the pipeline claims ---------------------------
RECURSIVE FilterAll(_, _, _, _)
FilterAll(D, mopes, k, n) ==
    IF k >= Len(mopes) THEN D
    ELSE FilterAll(FilterStep(D, mopes, k, n), mopes, k + 1, n)

D_ST == ST_Family(G, FrontierManager(G))
\* the family the MOPE filters leave
D_NO == IF input.apply_filter
        THEN FilterAll(D_ST, input.MOPEs, 0, num_edges) ELSE D_ST

Perm(k) == input.edge_permutations[k]
Flagged(k) == Len(input.zero_flags) = total /\ input.zero_flags[k]
Invariant(D, g) == {S \in D : Image(g, S) = S}
Finished == pc = "done" /\ input.apply_burnside

IsGroupList(perms) ==
    /\ perms # <<>>
    /\ \A a, b \in DOMAIN perms : perms[a] = perms[b] => a = b
    /\ \E a \in DOMAIN perms : perms[a] = identity_perm(Len(perms[a]))
    /\ \A a, b \in DOMAIN perms : \E c \in DOMAIN perms :
          perms[c] = [k \in DOMAIN perms[a] |-> perms[a][perms[b][k] + 1]]

Orbits(D, perms) ==
    {{Image(perms[k], S) : k \in DOMAIN perms} : S \in D}

\* C4: with 0 < d < |E| the partitioned pipeline reports the same
\* spanning_tree_count, non_overlapping_count, invariant_counts,
\* burnside_sum and nonisomorphic_count as the unpartitioned pipeline on the
\* same inputs.
ThmC4_PartitionedEqualsStandard ==
    (pc = "done" /\ split_depth > 0) =>
        /\ first_out.printed
        /\ stdout.spanning_tree_count = first_out.spanning_tree_count
        /\ stdout.non_overlapping_count = first_out.non_overlapping_count
        /\ stdout.invariant_counts = first_out.invariant_counts
        /\ stdout.burnside_sum = first_out.burnside_sum
        /\ stdout.nonisomorphic_count = first_out.nonisomorphic_count

WitC4_PartitionedRunDone ==
    /\ pc = "done"
    /\ split_depth = MaxDepth
    /\ input.apply_filter /\ input.MOPEs # <<>>
    /\ total >= 2
    /\ \E k \in 1..total :
          /\ Perm(k) # identity_perm(num_edges)
          /\ stdout.invariant_counts[k] # <<0>>
    /\ stdout.non_overlapping_count # stdout.spanning_tree_count

\* C5: when the permutations form a group G (listed once each, group_order
\* = |G|, zero_flags set only where the invariant count is 0) and the
\* filtered family is closed under G, the Burnside sum is divisible by |G|
\* and the quotient is the number of G-orbits of the family, the number of
\* canonical forms verify.cpp enumerates (2 for K_4 under S_4, no MOPEs).
ThmC5_BurnsideCountsOrbits ==
    (/\ Finished /\ split_depth = 0
     /\ IsGroupList(input.edge_permutations)
     /\ input.group_order = total
     /\ \A k \in 1..total : \A S \in dd : Image(Perm(k), S) \in dd
     /\ \A k \in 1..total : Flagged(k) => Invariant(dd, Perm(k)) = {})
    =>
        /\ FromDecimal(burnside_sum) % total = 0
        /\ ~warned
        /\ FromDecimal(nonisomorphic_count) =
              Cardinality(Orbits(dd, input.edge_permutations))
        /\ FromDecimal(nonisomorphic_count) =
              verify_nonisomorphic(dd, input.edge_permutations)
        /\ (G \in {K4, K4Star, K4Path} /\ total = 24 /\ ~input.apply_filter)
              => nonisomorphic_count = <<2>>

WitC5_GroupCounted ==
    /\ Finished /\ split_depth = 0
    /\ G = K4 /\ total = 24 /\ ~input.apply_filter
    /\ IsGroupList(input.edge_permutations)
    /\ nonisomorphic_count = <<2>>

\* C6: with one zero_flags entry per permutation, invariant_counts ends with
\* one entry per permutation in input order: 0 where the flag is set,
\* |L(D_NO)| for the identity, |L(D_NO) /\ L(SymmetryFilter(g_i))| otherwise,
\* and burnside_sum is the sum of the entries; in both pipelines.
ThmC6_InvariantCountsPerPermutation ==
    (Finished /\ Len(input.zero_flags) = total) =>
        /\ Len(invariant_counts) = total
        /\ \A k \in 1..total :
              invariant_counts[k] =
                 IF input.zero_flags[k] THEN <<0>>
                 ELSE IF Perm(k) = identity_perm(num_edges)
                      THEN zddCardinality(D_NO)
                      ELSE zddCardinality(
                              zddSubset_Symmetry(D_NO, num_edges, Perm(k)))
        /\ burnside_sum = SumCounts(invariant_counts, 1, <<0>>)
        /\ stdout.invariant_counts = invariant_counts
        /\ stdout.burnside_sum = burnside_sum

WitC6_FlaggedAndCounted ==
    /\ Finished /\ split_depth > 0
    /\ total = 2 /\ Len(input.zero_flags) = 2
    /\ input.zero_flags[1] /\ ~input.zero_flags[2]
    /\ Perm(1) = identity_perm(num_edges)
    /\ invariant_counts[1] = <<0>>
    /\ invariant_counts[2] # <<0>>

\* C7: in both pipelines the divisibility warning is written exactly when
\* the Burnside sum is not divisible by group_order; the floor quotient is
\* reported either way and the run ends with the result JSON and exit code 0.
ThmC7_WarningIffNotDivisible ==
    Finished =>
        /\ warned <=> (FromDecimal(burnside_sum) % input.group_order # 0)
        /\ nonisomorphic_count =
              ToDecimal(FromDecimal(burnside_sum) \div input.group_order)
        /\ stdout.printed
        /\ stdout.nonisomorphic_count = nonisomorphic_count
        /\ exit_code = 0

WitC7_WarnedAndReported ==
    /\ Finished /\ split_depth > 0
    /\ warned
    /\ exit_code = 0
    /\ nonisomorphic_count # <<0>>

IsK4Case ==
    /\ pc = "done" /\ split_depth = 0
    /\ G \in K4Orders
    /\ input.apply_filter /\ input.MOPEs = <<{0, 1, 2}>>

ListOrders(n) ==
    {f \in [1..n -> 1..n] : \A a, b \in 1..n : f[a] = f[b] => a = b}

\* C9: subsetting by two filters gives the same family in either order: the
\* family left by the MOPE filters, and so non_overlapping_count, is the
\* same for every order of the MOPE lines, and subsetting by a
\* SymmetryFilter before the MOPE filters gives the count the driver gets by
\* subsetting after them.
ThmC9_FilterOrderIrrelevant ==
    (pc = "done" /\ split_depth = 0 /\ input.apply_filter) =>
        /\ \A f \in ListOrders(Len(input.MOPEs)) :
              LET mopes == [k \in 1..Len(input.MOPEs) |-> input.MOPEs[f[k]]]
              IN  /\ FilterAll(D_ST, mopes, 0, num_edges) = dd
                  /\ zddCardinality(FilterAll(D_ST, mopes, 0, num_edges))
                        = stdout.non_overlapping_count
        /\ \A k \in 1..total :
              (~Flagged(k) /\ input.apply_burnside) =>
                 invariant_counts[k] =
                    zddCardinality(FilterAll(
                       zddSubset_Symmetry(D_ST, num_edges, Perm(k)),
                       input.MOPEs, 0, num_edges))

WitC9_TwoMopesBothPrune ==
    /\ pc = "done" /\ split_depth = 0
    /\ Len(input.MOPEs) = 2
    /\ input.MOPEs[1] # input.MOPEs[2]
    /\ zddSubset_Unfolding(D_ST, num_edges, input.MOPEs[1]) # dd
    /\ zddSubset_Unfolding(D_ST, num_edges, input.MOPEs[2]) # dd
    /\ dd # {}

\* C10: SymmetryFilter of the identity has no non-trivial orbit and rejects
\* nothing, so the identity shortcut records the count the clone-subset-
\* count path would give: |ST| without MOPE filtering, |NO| after it.
ThmC10_IdentityShortcut ==
    /\ (pc \in {"std_burnside", "part_burnside"} /\ i < total
        /\ is_identity(Perm(i + 1), num_edges)) =>
          /\ \A j \in 0..(num_edges - 1) :
                SymmetryFilter(num_edges, Perm(i + 1)).edge_to_orbit[j] = -1
          /\ zddSubset_Symmetry(dd, num_edges, Perm(i + 1)) = dd
          /\ InvariantCount(dd, Perm(i + 1), num_edges, zddCardinality(dd))
                = zddCardinality(
                     zddSubset_Symmetry(dd, num_edges, Perm(i + 1)))
    /\ Finished =>
          \A k \in 1..total :
             (Perm(k) = identity_perm(num_edges) /\ ~Flagged(k)) =>
                /\ invariant_counts[k] = non_overlapping_count
                /\ ~(input.apply_filter /\ input.MOPEs # <<>>) =>
                      invariant_counts[k] = spanning_tree_count

WitC10_IdentityCounted ==
    /\ Finished /\ split_depth = 0
    /\ input.apply_filter /\ input.MOPEs # <<>>
    /\ \E k \in 1..total :
          /\ Perm(k) = identity_perm(num_edges) /\ ~Flagged(k)
          /\ invariant_counts[k] = non_overlapping_count
    /\ non_overlapping_count # spanning_tree_count

\* ---- SpanningTree's comp array -------------------------------------------
\* vertices still in the frontier once edges 0..Decided-1 have been processed
FrontierLeft ==
    fm.frontier[Decided - 1] \ Range(fm.leaving[Decided - 1])
\* vertices whose last edge has been processed
LeftVs == {v \in Vertices(G) : LastOcc(G, v) < Decided}
TreeDeciding == result = "running" /\ G # NoGraph /\ Decided >= 1

\* C19: in every state SpanningTree reaches without rejecting, two frontier
\* vertices have equal comp values iff selected edges connect them, the comp
\* value of a frontier vertex is the largest vertex of its selected-edge
\* component (members that left included), and the slot of a vertex that
\* left holds -1 until it is reused.
ThmC19_CompIsComponentMax ==
    TreeDeciding =>
        /\ \A v, w \in FrontierLeft :
              (getComp(fm, state, v) = getComp(fm, state, w))
                 <=> (w \in Reach(G, sel, {v}))
        /\ \A v \in FrontierLeft :
              getComp(fm, state, v) = Max(Reach(G, sel, {v}))
        /\ \A u \in LeftVs :
              (\A v \in FrontierLeft : vertexToPos(fm, v) # vertexToPos(fm, u))
                 => getComp(fm, state, u) = -1

WitC19_MaxAlreadyLeft ==
    /\ TreeDeciding
    /\ \E v, w \in FrontierLeft :
          /\ v # w
          /\ getComp(fm, state, v) = getComp(fm, state, w)
          /\ getComp(fm, state, v) \in LeftVs
    /\ \E u \in LeftVs : getComp(fm, state, u) = -1

\* a getChild call with value 0
UnfoldZeroBranch ==
    /\ result = "running"
    /\ sel' = sel
    /\ (result' # "running" \/ level' # level)

ComposePerm(g, h) == [k \in DOMAIN g |-> g[h[k] + 1]]
PermOrder(g) ==
    IF g = identity_perm(Len(g)) THEN 1
    ELSE IF ComposePerm(g, g) = identity_perm(Len(g)) THEN 2
    ELSE IF ComposePerm(g, ComposePerm(g, g)) = identity_perm(Len(g)) THEN 3
    ELSE 4
\* an involution that is not the square of a rotation of order 4
IsReflection(g) ==
    /\ PermOrder(g) = 2
    /\ \A k \in 1..total :
          PermOrder(Perm(k)) = 4 => ComposePerm(Perm(k), Perm(k)) # g
FixedEdges(g) == {j \in 0..(Len(g) - 1) : g[j + 1] = j}
IsC4Case ==
    /\ Finished
    /\ G = C4 /\ total = 8 /\ input.group_order = 8
    /\ ~input.apply_filter /\ input.zero_flags = <<>>

\* C18: for C_4 with the 8 edge permutations of D_4 and no MOPEs the
\* pipeline reports |ST| = 4, invariant count 0 for each rotation of order
\* 4, invariant count 2 for each reflection, and burnside_sum / 8 = 1.
CexC18_EveryReflectionFixesTwo ==
    IsC4Case =>
        /\ spanning_tree_count = <<4>>
        /\ \A k \in 1..total :
              /\ PermOrder(Perm(k)) = 4 => invariant_counts[k] = <<0>>
              /\ IsReflection(Perm(k)) => invariant_counts[k] = <<2>>
        /\ nonisomorphic_count = <<1>>

\* C18 as amended: |ST| = 4, invariant count 0 for each rotation of order 4,
\* 2 for each of the two reflections that fix an edge (axis through two edge
\* midpoints), 0 for each of the two reflections that fix no edge (axis
\* through two vertices), burnside_sum = 8 and burnside_sum / 8 = 1.
ThmC18_EdgeAxisReflectionsFixTwo ==
    IsC4Case =>
        /\ spanning_tree_count = <<4>>
        /\ \A k \in 1..total :
              /\ PermOrder(Perm(k)) = 4 => invariant_counts[k] = <<0>>
              /\ IsReflection(Perm(k)) =>
                    invariant_counts[k] =
                       IF FixedEdges(Perm(k)) # {} THEN <<2>> ELSE <<0>>
        /\ Cardinality({k \in 1..total : IsReflection(Perm(k))
                                          /\ FixedEdges(Perm(k)) # {}}) = 2
        /\ Cardinality({k \in 1..total : IsReflection(Perm(k))
                                          /\ FixedEdges(Perm(k)) = {}}) = 2
        /\ Cardinality({k \in 1..total : PermOrder(Perm(k)) = 4}) = 2
        /\ burnside_sum = <<8>>
        /\ ~warned
        /\ nonisomorphic_count = <<1>>

WitC18_DihedralCounted ==
    /\ IsC4Case /\ split_depth = 0
    /\ \E k \in 1..total :
          IsReflection(Perm(k)) /\ invariant_counts[k] = <<2>>
    /\ \E k \in 1..total :
          IsReflection(Perm(k)) /\ invariant_counts[k] = <<0>>

\* ---- lifetimes and order of events in the drivers ------------------------
BurnsideLoop == pc \in {"std_burnside", "std_clone",
                        "part_burnside", "part_clone"}
CloneAlive == pc \in {"std_clone", "part_clone"}
Clones(a) == {k \in DOMAIN a : a[k] = "dd_copy"}
\* the family the MOPE filters leave of partition q
PartNO(q) ==
    LET D == Part_Family(G, FrontierManager(G), split_depth, q)
    IN  IF input.apply_filter
        THEN FilterAll(D, input.MOPEs, 0, num_edges) ELSE D
\* the family the Burnside loop works on
LoopFamily == IF split_depth > 0 THEN PartNO(p) ELSE D_NO

C14Step ==
    BurnsideLoop =>
          /\ dd = LoopFamily
          /\ dd' = dd
          /\ Cardinality(Clones(alive)) <= 1
          /\ Cardinality(Clones(alive')) <= 1
          /\ (Clones(alive) # {}) <=> CloneAlive
          /\ CloneAlive =>
                dd_copy = zddSubset_Symmetry(LoopFamily, num_edges,
                                             Perm(i + 1))
          /\ ~CloneAlive => dd_copy = NoDd

\* C14: throughout the Burnside loop the filtered ZDD is never modified:
\* every non-identity permutation is intersected against a fresh copy, so
\* each count is taken against the same family whatever the position of
\* the permutation, the family after the loop is the family before it, and
\* at most one clone exists at any time.
ThmC14_SharedZddFrozen == [][C14Step]_vars

WitC14_LaterCloneOfSameFamily ==
    /\ pc = "std_clone"
    /\ i >= 1
    /\ \E k \in 1..i : ~is_identity(Perm(k), num_edges) /\ ~Flagged(k)
    /\ alive = <<"dd", "dd_copy">>
    /\ dd_copy # dd /\ dd_copy # {}
    /\ dd = D_NO

PartitionPcs == {"part_build", "part_filter", "part_count", "part_burnside",
                 "part_clone", "part_release"}
PartitionOrder ==
    {<<"part_build", "part_filter">>, <<"part_build", "part_count">>,
     <<"part_filter", "part_filter">>, <<"part_filter", "part_count">>,
     <<"part_count", "part_burnside">>, <<"part_count", "part_release">>,
     <<"part_burnside", "part_burnside">>, <<"part_burnside", "part_clone">>,
     <<"part_burnside", "part_release">>, <<"part_clone", "part_burnside">>,
     <<"part_clone", "part_release">>, <<"part_release", "part_build">>,
     <<"part_release", "part_final">>}

C15Step ==
    pc \in PartitionPcs =>
          /\ p \in 0..(Pow2(split_depth) - 1)
          /\ <<pc, pc'>> \in PartitionOrder
          /\ p' = IF pc = "part_release" THEN p + 1 ELSE p
          /\ alive \in {<<>>, <<"dd">>, <<"dd", "dd_copy">>}
          /\ alive' \in {<<>>, <<"dd">>, <<"dd", "dd_copy">>}
          /\ pc = "part_build" =>
                /\ alive = <<>> /\ alive' = <<"dd">>
                /\ dd' = Part_Family(G, FrontierManager(G), split_depth, p)
                /\ spanning_tree_count' =
                      bigint_add(spanning_tree_count, zddCardinality(dd'))
                /\ (pc' = "part_filter") <=>
                      (input.apply_filter /\ input.MOPEs # <<>>)
          /\ pc = "part_filter" =>
                /\ dd' = zddSubset_Unfolding(dd, num_edges,
                                             input.MOPEs[i + 1])
                /\ i' = i + 1
                /\ (pc' = "part_count") <=> (i' = Len(input.MOPEs))
          /\ pc = "part_count" =>
                /\ dd = PartNO(p) /\ dd' = dd
                /\ part_non_overlapping' = zddCardinality(dd)
                /\ i' = 0
          /\ pc = "part_burnside" =>
                /\ i < total
                /\ pc' = "part_clone" => i' = i
                /\ pc' # "part_clone" => i' = i + 1
                /\ (pc' = "part_release") => i' = total
          /\ pc = "part_clone" =>
                /\ i' = i + 1 /\ alive' = <<"dd">>
                /\ (pc' = "part_release") <=> (i' = total)
          /\ pc = "part_release" =>
                /\ alive = <<"dd">> /\ alive' = <<>>
                /\ (pc' = "part_final") <=> (p' = Pow2(split_depth))

\* C15: the partitions are processed in increasing pattern order and within
\* a partition the events occur in the order build, count |ST|, MOPE filters
\* in input order, count |NO|, permutations in input order, release; a
\* partition's ZDD is released before the next one is built, so at most one
\* partition ZDD plus one clone is alive at any time.
ThmC15_PartitionEventOrder == [][C15Step]_vars

WitC15_SecondPartitionClone ==
    /\ pc = "part_clone"
    /\ p >= 1 /\ i >= 1
    /\ alive = <<"dd", "dd_copy">>
    /\ input.apply_filter /\ input.MOPEs # <<>>
    /\ dd # {} /\ dd_copy # dd

\* ---- C11, C12: exit codes of main --------------------------------------
IsFlag(tok) == IsWord(tok, "--automorphisms") \/ IsWord(tok, "--split-depth")
\* the word after a flag is the flag's value
IsValueAt(k) == k > 1 /\ IsFlag(argv[k - 1])
Positionals == {k \in DOMAIN argv : ~IsFlag(argv[k]) /\ ~IsValueAt(k)}
\* the integers given to --split-depth
SplitDepthGiven ==
    {argv[k] : k \in {j \in DOMAIN argv :
        IsValueAt(j) /\ IsWord(argv[j - 1], "--split-depth")
        /\ argv[j].kind = "int"}}
Below100(tok) == ~tok.negative /\ Len(tok.digits) <= 2
InRange(tok, hi) == Below100(tok) /\ FromDecimal(tok.digits) <= hi
AtLeast(tok, lo) ==
    ~tok.negative /\ (Below100(tok) => FromDecimal(tok.digits) >= lo)
\* the graph the command line names, when it names a readable one
GraphsOnCommandLine ==
    {ReadFile(argv[k].name).graph : k \in {j \in Positionals :
        /\ \A h \in Positionals : j <= h
        /\ ReadFile(argv[j].name).kind = "grh"}}
Terminated == pc \in {"exit", "done"}
NoZddBuilt == spanning_tree_count = Unset /\ dd = NoDd /\ alive = <<>>
NoResultJson == ~stdout.printed

ArgumentError ==
    \/ Positionals = {}
    \/ Cardinality(Positionals) >= 3
    \/ \E d \in SplitDepthGiven : ~InRange(d, MaxSplitDepth)
    \/ \E g \in GraphsOnCommandLine : edgeSize(g) > MaxSupportedEdges
    \/ \E g \in GraphsOnCommandLine, d \in SplitDepthGiven :
          AtLeast(d, 1) /\ AtLeast(d, edgeSize(g))

\* C11: when the graph argument is missing, a third positional argument is
\* given, --split-depth is outside 0..30, the graph has more than 448 edges
\* or the split depth d > 0 is at least |E|, main builds no ZDD, prints no
\* result JSON and ends with exit code 1.
CexC11_ArgumentErrorExitsOne ==
    ArgumentError =>
        /\ NoZddBuilt /\ NoResultJson
        /\ Terminated => exit_code = 1

\* a named file that cannot be opened, or whose text is not of its format
Malformed(f) ==
    \/ f.kind = "malformed"
    \/ /\ f.kind = "jsonl"
       /\ \E k \in DOMAIN f.lines :
             \/ f.lines[k].text = "nobracket"
             \/ \E t \in DOMAIN f.lines[k].tokens :
                   f.lines[k].tokens[t].kind # "int"
    \/ /\ f.kind = "json"
       /\ \/ {"group_order", "edge_permutations"} \ f.keys # {}
          \/ f.group_order.kind # "int"
          \/ \E k \in DOMAIN f.edge_permutations :
                \E t \in DOMAIN f.edge_permutations[k] :
                   f.edge_permutations[k][t].kind # "int"
NamedFiles ==
    {argv[k].name : k \in Positionals}
    \cup {argv[k].name : k \in {j \in DOMAIN argv :
              IsValueAt(j) /\ IsWord(argv[j - 1], "--automorphisms")}}
BadFileNamed ==
    \E name \in NamedFiles :
        ReadFile(name).kind = "unreadable" \/ Malformed(ReadFile(name))

\* C12: when a file named on the command line cannot be opened or is
\* malformed, main ends with exit code 1 and prints no result JSON.
CexC12_BadFileExitsOne ==
    BadFileNamed =>
        /\ NoResultJson
        /\ Terminated => exit_code = 1

\* ---- C13: the bottom-up count of a node table --------------------------
RECURSIVE PathsFrom(_, _)
\* the paths from node f to the 1-terminal, as sequences of <<node, branch>>
PathsFrom(rows, f) ==
    IF f = ZeroTerminal THEN {}
    ELSE IF f = OneTerminal THEN {<<>>}
    ELSE UNION {{<<<<f, b>>>> \o q :
                   q \in PathsFrom(rows, Branch(rows[f[1]][f[2]], b))} :
                b \in 0..1}
\* the edge set a path encodes: the edges of the levels left by a 1-branch
SetOfPath(path) ==
    {e - path[k][1][1] : k \in {j \in DOMAIN path : path[j][2] = 1}}
FamilyFrom(rows, f) == {SetOfPath(q) : q \in PathsFrom(rows, f)}
Counted == IF cpc = "count" THEN 1..(row - 1)
           ELSE IF cpc = "done" /\ countWork # <<>> THEN 1..outputRoot[1]
           ELSE {}
\* verify.cpp: the sets enumerated from the diagram, one for each path
Enumerated(rows, f) == SetToSeq(PathsFrom(rows, f))
NotReduced(rows) ==
    \E l \in DOMAIN rows : \E j \in DOMAIN rows[l] :
        \/ Branch(rows[l][j], 1) = ZeroTerminal
        \/ \E k \in DOMAIN rows[l] : k # j /\ rows[l][k] = rows[l][j]

\* C13: in the node table count_invariant_trees builds, reduced or not, the
\* bottom-up count (0 at the 0-terminal, 1 at the 1-terminal, lo + hi at a
\* node) of every node is the number of its paths to the 1-terminal and the
\* number of edge sets of its family, and the returned string is the decimal
\* form of the number of sets enumerated from the root.
ThmC13_CountIsNumberOfPaths ==
    /\ \A l \in Counted : \A j \in DOMAIN output[l] :
          /\ countWork[l][j] = Cardinality(PathsFrom(output, <<l, j>>))
          /\ countWork[l][j] = Cardinality(FamilyFrom(output, <<l, j>>))
    /\ (cpc = "done" /\ countWork # <<>>) =>
          returned = ToDecimal(Len(Enumerated(output, outputRoot)))
WitC13_UnreducedTableCounted ==
    /\ cpc = "done" /\ countWork # <<>>
    /\ NotReduced(output)
    /\ Len(Enumerated(output, outputRoot)) >= 2

\* ---- C16: the levels that hold work during the top-down phase ----------
Phase1 == cpc \in {"pass1", "pass2", "clear"}
\* the levels with a SpecNode in a work list or in the pool
Held ==
    {l \in DOMAIN work :
        \/ \E c \in DOMAIN work[l] : work[l][c] # <<>>
        \/ pools[l] > 0}
Processed == IF Phase1 THEN (row + 1)..Len(output)
             ELSE IF cpc \in {"phase2", "count", "done"} THEN DOMAIN work
             ELSE {}

\* C16: during the top-down construction the levels that hold a non-empty
\* work list or pool are at most two and adjacent, the level being
\* processed and the one directly below it, and a processed level holds
\* nothing.
CexC16_AtMostTwoAdjacentLevels ==
    Phase1 =>
        /\ Held \subseteq {row, row - 1}
        /\ Held \cap Processed = {}

\* C16, as the code has it: the levels that hold a non-empty work list or
\* pool are the level being processed and levels below it, any number of
\* them; a processed level holds nothing and is never populated again.
ThmC16_WorkOnlyAtOrBelowCurrentLevel ==
    /\ Phase1 => Held \subseteq 1..row
    /\ Held \cap Processed = {}
WitC16_ThreeLevelsHeld ==
    /\ cpc = "clear"
    /\ Cardinality(Held) >= 3
    /\ \E l \in Held : l < row - 1

\* ---- C17: the edge-relabeling tool keeps the graph ----------------------
LoopFree(text) == \A k \in DOMAIN text.lines : text.lines[k][1] # text.lines[k][2]
\* how many lines join the unordered pair P
LinesJoining(lines, P) ==
    Cardinality({k \in DOMAIN lines : {lines[k][1], lines[k][2]} = P})
SameEdgeMultiset(a, b) ==
    \A u, v \in 1..MaxRelabelV : LinesJoining(a, {u, v}) = LinesJoining(b, {u, v})

\* C17: for a loop-free multigraph and a vertex ordering that is a
\* permutation of 0..n-1 the tool prints a header with the same vertex and
\* edge counts and exactly m edge lines whose multiset of unordered 1-indexed
\* endpoint pairs is the input's; when the number of edges to emit differs
\* from m it exits with code 1 and prints no graph.
ThmC17_RelabelingKeepsEdgeMultiset ==
    epc = "done" =>
        /\ (LoopFree(grh_in) /\ IsVertexOrdering(ordering, grh_in.n)) =>
              /\ relabel_exit = 0 /\ grh_out.printed
              /\ grh_out.n = grh_in.n /\ grh_out.m = grh_in.m
              /\ Len(grh_out.lines) = grh_in.m
              /\ SameEdgeMultiset(grh_out.lines, grh_in.lines)
        /\ Len(edgePermutation) # grh_in.m =>
              relabel_exit = 1 /\ ~grh_out.printed
WitC17_ParallelEdgesReordered ==
    /\ epc = "done" /\ relabel_exit = 0
    /\ LoopFree(grh_in) /\ IsVertexOrdering(ordering, grh_in.n)
    /\ \E k \in DOMAIN ordering : ordering[k] # k - 1
    /\ \E u, v \in 1..MaxRelabelV : LinesJoining(grh_in.lines, {u, v}) = 2
    /\ \E k \in DOMAIN grh_in.lines : grh_in.lines[k][1] > grh_in.lines[k][2]
    /\ grh_out.lines # grh_in.lines

\* ---- C21: the zero mask of UnfoldingFilter ------------------------------
C21Step ==
    /\ (result = "running" /\ state = BitMask_zero) =>
          state' = BitMask_zero /\ result' # "reject"
    /\ result' = "reject" =>
          /\ edges # {}
          /\ sel' = sel
          /\ e - level = Max(edges)
          /\ \A T \in Completions' : T \cap edges = {}
    /\ result' = "accept" => (edges = {} \/ sel' \cap edges # {})

OrbitIds == {sf.edge_to_orbit[j] : j \in 0..(e - 1)} \ {-1}
OrbitOf(b) == {j \in 0..(e - 1) : sf.edge_to_orbit[j] = b}
Representative(b) == CHOOSE j \in OrbitOf(b) : sf.is_representative[j]
C22Step ==
    /\ \A b \in OrbitIds :
          /\ Cardinality({j \in OrbitOf(b) : sf.is_representative[j]}) = 1
          /\ Representative(b) = Min(OrbitOf(b))
    /\ result = "running" => state \subseteq state'
    /\ result' # "reject" =>
          \A b \in OrbitIds : (b \in state') <=> (Representative(b) \in sel')
    /\ (result = "running" /\ sf.edge_to_orbit[e - level] >= 0
        /\ ~sf.is_representative[e - level]) =>
          Representative(sf.edge_to_orbit[e - level]) < Decided

\* C22: in every state SymmetryFilter reaches without rejecting, bit b of the
\* mask is 1 exactly when the representative (the smallest edge) of the
\* non-trivial orbit b has been decided with value 1; the representative is
\* decided before every other edge of its orbit, so a non-representative is
\* compared against a decided bit, and no bit is ever cleared.
ThmC22_BitIsRepresentativeDecision == [][C22Step]_vars
WitC22_OneOrbitInOneOut ==
    /\ result = "accept"
    /\ Cardinality(OrbitIds) >= 2
    /\ \E b \in OrbitIds : b \in state
    /\ \E b \in OrbitIds : b \notin state

\* ---- C23: the fused count against the pipeline of the driver ------------
\* the sets of the input diagram that the permutation maps to themselves
InvariantSets == {S \in FamilyFrom(diagram.rows, diagram.root) :
                    Image(perm, S) = S}
\* main.cpp 488-497: copy, zddSubset with SymmetryFilter, reduce, count
DriverCount ==
    zddCardinality(
        zddSubset_Symmetry(FamilyFrom(diagram.rows, diagram.root), e, perm))
C23Step ==
    /\ diagram' = diagram
    /\ cpc' = "done" =>
          /\ returned' = ToDecimal(Cardinality(InvariantSets))
          /\ returned' = DriverCount

\* C23: for every input diagram (the 0-terminal, the 1-terminal and reduced,
\* level-skipping tables included) and every edge permutation,
\* count_invariant_trees returns the decimal number of sets of the diagram
\* the permutation fixes, the same string the driver obtains by subsetting a
\* copy with SymmetryFilter, reducing and counting, and the input diagram is
\* left as it was.
ThmC23_FusedCountEqualsDriverCount == [][C23Step]_vars
WitC23_SkippingTableFiltered ==
    /\ cpc = "done" /\ countWork # <<>>
    /\ diagram.root[1] < e
    /\ ~NotReduced(diagram.rows)
    /\ Cardinality(InvariantSets) >= 1
    /\ Cardinality(InvariantSets)
          < Cardinality(FamilyFrom(diagram.rows, diagram.root))

\* ---- EdgeRestrictor walked along one decision path ----------------------
ER_getRoot(n) == [ret |-> n, state |-> 0]

RECURSIVE ER_Run(_, _, _, _, _)
\* the restrictor followed along the decisions that spell the edge set S
ER_Run(n, depth, partition, l, S) ==
    LET ret == ER_getChild(n, depth, partition, l,
                           IF (n - l) \in S THEN 1 ELSE 0)
    IN  IF ret = 0 THEN FALSE
        ELSE IF ret = -1 THEN TRUE
        ELSE ER_Run(n, depth, partition, ret, S)

InitRestrict ==
    /\ e \in 1..MaxFilterEdges
    /\ split_depth \in 0..(e - 1)
    /\ p \in 0..(Pow2(split_depth) - 1)
    /\ G = NoGraph /\ fm = NoFm /\ edges = {} /\ sf = NoSf /\ perm = <<>>
    /\ level = 0 /\ state = 0 /\ sel = {} /\ result = "root"
    /\ RelabelIdle /\ CountIdle /\ argv = NoArgv
    /\ input = [G |-> NoGraph] /\ pc = "idle" /\ first_out = NoOutput
    /\ dd = NoDd /\ i = 0
    /\ spanning_tree_count = Unset /\ non_overlapping_count = Unset
    /\ part_non_overlapping = Unset /\ invariant_counts = <<>>
    /\ burnside_sum = Unset /\ nonisomorphic_count = Unset
    /\ warned = FALSE /\ stdout = NoOutput /\ exit_code = -1
    /\ dd_copy = NoDd /\ alive = <<>>

RestrictRoot ==
    /\ result = "root"
    /\ LET r == ER_getRoot(e)
       IN  /\ level' = r.ret
           /\ state' = r.state
           /\ result' = "running"
    /\ UNCHANGED <<evars, cvars, argv, G, fm, edges, sf, perm, e, sel, pvars>>

RestrictChild ==
    /\ result = "running"
    /\ \E value \in {0, 1} :
          LET ret == ER_getChild(e, split_depth, p, level, value)
          IN  Walk([ret |-> ret], value, state)
    /\ UNCHANGED <<evars, cvars, argv, G, fm, edges, sf, perm, e, pvars>>

NextRestrict == RestrictRoot \/ RestrictChild
SpecRestrict == InitRestrict /\ [][NextRestrict]_vars

\* ---- C24: the partitions of EdgeRestrictor ------------------------------
\* the partition whose bit j is the membership of edge j, for j below depth
PartitionOf(S, depth) ==
    LET RECURSIVE Sum(_)
        Sum(j) == IF j = depth THEN 0
                  ELSE (IF j \in S THEN Pow2(j) ELSE 0) + Sum(j + 1)
    IN  Sum(0)
Partitions == 0..(Pow2(split_depth) - 1)
AcceptingPartitions(S) ==
    {q \in Partitions : ER_Run(e, split_depth, q, e, S)}
C24Step ==
    /\ \A S \in SUBSET (0..(e - 1)) :
          AcceptingPartitions(S) = {PartitionOf(S, split_depth)}
    /\ result' = "reject" => e - level < split_depth
    /\ result' = "accept" => p = PartitionOf(sel', split_depth)
    /\ result' = "reject" =>
          \A T \in Completions' : p # PartitionOf(T, split_depth)

\* C24: for every number of edges, every depth d with 0 <= d < |E| and
\* every edge set S, exactly one partition p in [0, 2^d) accepts S, the one
\* whose bit j is the membership of edge j in S for every j < d; the
\* restrictor never returns 0 on an edge of index d or more, so the
\* partitions are pairwise disjoint and together keep every set.
ThmC24_ExactlyOnePartitionAccepts == [][C24Step]_vars
WitC24_AcceptedInItsPartition ==
    /\ result = "accept"
    /\ split_depth >= 2 /\ split_depth < e - 1
    /\ p # 0 /\ p # Pow2(split_depth) - 1
    /\ \E j \in sel : j >= split_depth

\* ---- C25: the synchronisation loops and the level loop ------------------
RECURSIVE SyncTrace(_, _, _, _, _, _, _)
\* the cursor, the filter state and the two levels at every test of the
\* loop condition of a synchronisation loop
SyncTrace(rows, orbits, n, f, st, kk, ii) ==
    LET here == [f |-> f, st |-> st, kk |-> kk, ii |-> ii]
    IN  IF ii # 0 /\ kk # 0 /\ ii # kk
        THEN IF ii < kk
             THEN LET d == downTable(rows, f, 0, ii)
                  IN  <<here>> \o SyncTrace(rows, orbits, n, d.f, st, d.ret, ii)
             ELSE LET c == downSpec(orbits, n, st, ii, 0, kk)
                  IN  <<here>> \o SyncTrace(rows, orbits, n, f, c.st, kk, c.ret)
        ELSE <<here>>
Lowered(a, b) ==
    \/ b.kk < a.kk /\ b.ii = a.ii /\ a.kk > 0
    \/ b.ii < a.ii /\ b.kk = a.kk /\ a.ii > 0
Settled(s) == s.ii = 0 \/ s.kk = 0 \/ s.ii = s.kk
LoopDescends(t) ==
    /\ \A k \in 1..(Len(t) - 1) : Lowered(t[k], t[k + 1])
    /\ Settled(t[Len(t)])
RootSync ==
    SyncTrace(diagram.rows, sf, e, diagram.root, BitMask_zero,
              diagram.root[1], e)
\* the SpecNodes of the current level that pass 2 expands
LiveNodes ==
    UNION {{<<j, t>> : t \in {u \in 1..Len(work[row][j]) :
                                work[row][j][u].nodeId # UnusedId}} :
           j \in DOMAIN work[row]}
ChildSync(j, q, b) ==
    LET d == downTable(diagram.rows, <<row, j>>, b, row - 1)
        c == downSpec(sf, e, q.state, row, b, d.ret)
    IN  SyncTrace(diagram.rows, sf, e, d.f, c.st, d.ret, c.ret)
Last(t) == t[Len(t)]
IsTerminalPair(s) == s.ii <= 0 \/ s.kk <= 0
C25Step ==
    /\ (cpc = "start" /\ diagram.root[1] > 0) =>
          /\ LoopDescends(RootSync)
          /\ Last(RootSync) = Synchronize(diagram.rows, sf, e, diagram.root,
                                          BitMask_zero, diagram.root[1], e)
          /\ cpc' = "done" <=> IsTerminalPair(Last(RootSync))
          /\ cpc' = "pass1" => row' = Last(RootSync).ii
    /\ cpc = "pass2" =>
          \A c \in LiveNodes : \A b \in 0..1 :
             LET q == work[row][c[1]][c[2]]
                 t == ChildSync(c[1], q, b)
                 s == Last(t)
                 child == output'[row][q.nodeId[2]].branch[b + 1]
             IN  /\ LoopDescends(t)
                 /\ t[1].kk < row /\ t[1].ii < row
                 /\ child = OneTerminal <=> (s.kk = -1 /\ s.ii = -1)
                 /\ (s.kk = 0 \/ s.ii = 0) => child = ZeroTerminal
                 /\ ~IsTerminalPair(s) =>
                       /\ s.ii = s.kk /\ s.ii \in 1..(row - 1)
                       /\ \E k \in DOMAIN work'[s.ii][s.f[2]] :
                             /\ work'[s.ii][s.f[2]][k].srcPtr
                                   = <<row, q.nodeId[2], b>>
                             /\ work'[s.ii][s.f[2]][k].state = s.st
    /\ cpc \in {"pass1", "pass2"} => row' = row /\ row >= 1
    /\ cpc = "clear" =>
          IF row > 1 THEN row' = row - 1 /\ cpc' = "pass1"
          ELSE cpc' = "phase2"

\* C25: every synchronisation loop of count_invariant_trees ends; each of
\* its iterations strictly lowers either the level of the input cursor or
\* the level of the filter, and it stops when the two are equal or one of
\* them is 0 or below. A child becomes the 1-terminal only when the cursor
\* reached the 1-terminal and the filter returned -1, the 0-terminal when
\* either reached 0, and a node of a strictly lower level otherwise; the
\* construction handles the levels topLevel, ..., 1 once each in this order.
ThmC25_SyncLoopsDescend == [][C25Step]_vars
WitC25_RootLoopRanChildrenSettled ==
    /\ cpc = "pass2" /\ row >= 2
    /\ Len(RootSync) >= 2 /\ RootSync[1].ii > RootSync[1].kk
    /\ \E c \in LiveNodes : \E b \in 0..1 :
          LET t == ChildSync(c[1], work[row][c[1]][c[2]], b)
          IN  Last(t).kk = -1 /\ Last(t).ii = -1
    /\ \E c \in LiveNodes : \E b \in 0..1 :
          LET t == ChildSync(c[1], work[row][c[1]][c[2]], b)
          IN  Last(t).kk > 0 /\ Last(t).ii = 0

\* ---- The bit-mask type main selects and the bits made in it -------------
BlockBits == 64
MaxBlocks == 7
\* the ladder that takes one block too few above 64 edges
LadderBlocks_OneShort(n) == IF n <= BlockBits THEN 1 ELSE n \div BlockBits
\* main: uint64_t (one block) up to 64 edges, then BigUInt<2>, ..., BigUInt<7>
LadderBlocks(n) ==
    IF n <= 64 THEN 1
    ELSE IF n <= 128 THEN 2
    ELSE IF n <= 192 THEN 3
    ELSE IF n <= 256 THEN 4
    ELSE IF n <= 320 THEN 5
    ELSE IF n <= 384 THEN 6
    ELSE 7
\* a mask is its array of blocks, each block the set of its 1 bits
BigUInt_zero(N) == [k \in 0..(N - 1) |-> {}]
BigUInt_bit(N, pos) ==
    LET block_idx == pos \div BlockBits
        bit_idx == pos % BlockBits
    IN  [k \in 0..(N - 1) |-> IF k = block_idx THEN {bit_idx} ELSE {}]
\* 1ULL << pos: undefined for pos >= 64; the builds either mask the shift
\* count or produce 0
uint64_bit(pos) ==
    IF pos < BlockBits THEN {[k \in 0..0 |-> {pos}]}
    ELSE {[k \in 0..0 |-> {}], [k \in 0..0 |-> {pos % BlockBits}]}
BitMaskTraits_bit(N, pos) ==
    IF N = 1 THEN uint64_bit(pos) ELSE {BigUInt_bit(N, pos)}
\* the bit positions worth trying: the first, the last and the block borders
BorderPositions(n) ==
    {pos \in 0..(n - 1) :
        pos = 0 \/ pos = n - 1 \/ pos % BlockBits \in {0, BlockBits - 1}}

InitWidth ==
    /\ e \in 1..MaxSupportedEdges
    /\ G = NoGraph /\ fm = NoFm /\ edges = {} /\ sf = NoSf /\ perm = <<>>
    /\ level = 0 /\ state = <<>> /\ sel = {} /\ result = "root"
    /\ PipeIdle

\* main picks the mask type from the number of edges
SelectBitMask ==
    /\ result = "root"
    /\ state' = BigUInt_zero(LadderBlocks(e))
    /\ result' = "selected"
    /\ UNCHANGED <<evars, cvars, argv, G, fm, edges, sf, perm, e, level, sel,
                   pvars>>

\* a filter makes the bit of edge index e - level in the selected type
MakeBit ==
    /\ result = "selected"
    /\ \E pos \in BorderPositions(e) :
          /\ level' = e - pos
          /\ state' \in BitMaskTraits_bit(Cardinality(DOMAIN state), pos)
    /\ result' = "bit"
    /\ UNCHANGED <<evars, cvars, argv, G, fm, edges, sf, perm, e, sel, pvars>>

NextWidth == SelectBitMask \/ MakeBit
SpecWidth == InitWidth /\ [][NextWidth]_vars

\* ---- C26: the selected width holds every bit index ----------------------
\* the bit positions of a mask, counted over its blocks
PositionsOf(mask) ==
    UNION {{BlockBits * k + b : b \in mask[k]} : k \in DOMAIN mask}
WidthOf(mask) == BlockBits * Cardinality(DOMAIN mask)

\* C26: for every |E| <= 448 the mask type of the ladder is at least |E| bits
\* wide, so every bit index below |E| (an edge index |E| - level or an orbit
\* index) is below the width: uint64_t never shifts by 64 or more, BigUInt
\* never returns the all-zero mask for it, and in the selected type and in
\* every wider one the bit made is exactly the bit asked for, which is all
\* the filters read of the width.
ThmC26_SelectedWidthHoldsEveryBit ==
    /\ result \in {"selected", "bit"} =>
          /\ WidthOf(state) >= e
          /\ \A pos \in 0..(e - 1) :
                \A N \in Cardinality(DOMAIN state)..MaxBlocks :
                   \A m \in BitMaskTraits_bit(N, pos) :
                      PositionsOf(m) = BitMask_bit(pos)
    /\ result = "bit" =>
          /\ PositionsOf(state) = BitMask_bit(e - level)
          /\ Cardinality(DOMAIN state) = 1 => e - level < BlockBits
WitC26_BitInLastBlock ==
    /\ result = "bit"
    /\ e = MaxSupportedEdges /\ level = 1
    /\ Cardinality(DOMAIN state) = MaxBlocks
    /\ state[MaxBlocks - 1] = {BlockBits - 1}

\* ---- C27: vertex IDs in the 16-bit comp field ---------------------------
Sentinels == {-1, 0}
Walked == result \in {"running", "accept", "reject"}

MaxSmallValue == 11
MaxGroupSample == 4
\* small values, the carries into a new digit, and values of ten digits
BigintSamples ==
    (0..MaxSmallValue)
       \cup {99, 100, 999, 1000, 123456789, 999999999, 1000000000}
GroupSamples == (1..MaxGroupSample) \cup {24, 48, 120, 12345, 200000000}

InitBigint ==
    /\ burnside_sum \in {ToDecimal(n) : n \in BigintSamples}
    /\ invariant_counts \in {<<ToDecimal(n)>> : n \in BigintSamples}
    /\ input \in {[G |-> NoGraph, group_order |-> g] : g \in GroupSamples}
    /\ pc = "add"
    /\ G = NoGraph /\ WalkIdle /\ RelabelIdle /\ CountIdle /\ argv = NoArgv
    /\ split_depth = 0 /\ first_out = NoOutput
    /\ dd = NoDd /\ p = 0 /\ i = 0
    /\ spanning_tree_count = Unset /\ non_overlapping_count = Unset
    /\ part_non_overlapping = Unset /\ nonisomorphic_count = Unset
    /\ warned = FALSE /\ stdout = NoOutput /\ exit_code = -1
    /\ dd_copy = NoDd /\ alive = <<>>

\* burnside_sum = bigint_add(burnside_sum, count)
AddCount ==
    /\ pc = "add"
    /\ burnside_sum' = bigint_add(burnside_sum, invariant_counts[1])
    /\ i' = 1
    /\ pc' = "divide"
    /\ UNCHANGED <<evars, cvars, argv, G, wvars, lvars, input, split_depth,
                   dd, p, spanning_tree_count, non_overlapping_count,
                   part_non_overlapping, invariant_counts,
                   nonisomorphic_count, warned, stdout, exit_code, first_out>>

\* nonisomorphic_count = bigint_divide(burnside_sum, group_order, remainder)
DivideSum ==
    /\ pc = "divide"
    /\ LET d == bigint_divide(burnside_sum, input.group_order)
       IN  /\ nonisomorphic_count' = d.quotient
           /\ warned' = (d.remainder # 0)
    /\ pc' = "divided"
    /\ UNCHANGED <<evars, cvars, argv, G, wvars, lvars, input, split_depth,
                   dd, p, i, spanning_tree_count, non_overlapping_count,
                   part_non_overlapping, invariant_counts, burnside_sum,
                   stdout, exit_code, first_out>>

NextBigint == AddCount \/ DivideSum
SpecBigint == InitBigint /\ [][NextBigint]_vars

\* ---- C28: the decimal-string arithmetic ---------------------------------
LLONG_MAX == <<9, 2, 2, 3, 3, 7, 2, 0, 3, 6, 8, 5, 4, 7, 7, 5, 8, 0, 7>>
\* the digits bigint_divide has read, the first k of a
Prefix(a, k) == SubSeq(a, 1, k)
C28Step ==
    /\ pc' = "divide" =>
          burnside_sum' = ToDecimal(FromDecimal(burnside_sum)
                                    + FromDecimal(invariant_counts[1]))
    /\ pc' = "divided" =>
          LET a == FromDecimal(burnside_sum)
              g == input.group_order
              d == bigint_divide(burnside_sum, g)
          IN  /\ nonisomorphic_count' = ToDecimal(a \div g)
              /\ d.remainder = a % g
              /\ warned' = (a % g # 0)
              /\ a \div g = 0 => nonisomorphic_count' = <<0>>
              /\ \A k \in 0..Len(burnside_sum) :
                    LET t == bigint_divide_loop(Prefix(burnside_sum, k), g,
                                                1, 0, <<>>)
                    IN  /\ t.rem \in 0..(g - 1)
                        /\ t.rem * 10 + 9 <= 10 * g - 1
                        /\ \A m \in DOMAIN t.result : t.result[m] \in 0..9
              /\ Len(Append(ToDecimal(INT_MAX), 9)) < Len(LLONG_MAX)

\* C28: bigint_add(a, b) is the decimal string of a + b without leading
\* zeros, and bigint_divide(a, g, r) is the decimal string of floor(a / g)
\* without leading zeros ("0" when the quotient is zero) with r = a mod g;
\* the running remainder stays below g, so rem * 10 + digit is below 10 g,
\* which for every positive int g is far inside long long, and every
\* quotient digit is a single decimal digit.
ThmC28_DecimalStringArithmetic == [][C28Step]_vars
WitC28_CarryAndRemainder ==
    /\ pc = "divided"
    /\ Len(burnside_sum) > Len(invariant_counts[1])
    /\ burnside_sum[1] = 1 /\ invariant_counts[1][1] = 9
    /\ Len(nonisomorphic_count) >= 2
    /\ Len(nonisomorphic_count) < Len(burnside_sum)
    /\ warned

\* ---- C29: zero_flags of the wrong length --------------------------------
\* the count the driver computes for permutation k when it does not skip it
ComputedCount(k) ==
    IF Perm(k) = identity_perm(num_edges) THEN zddCardinality(D_NO)
    ELSE zddCardinality(zddSubset_Symmetry(D_NO, num_edges, Perm(k)))
Mismatched == input.zero_flags # <<>> /\ Len(input.zero_flags) # total

\* C29: when zero_flags is present with a length other than the number of
\* permutations, both pipelines ignore every flag and compute the invariant
\* count of every permutation; a flag is honoured (the count recorded as 0
\* without computing it) only when the two lengths are equal, and
\* zero_flags is never read at an index it does not have.
ThmC29_MismatchedFlagsIgnored ==
    Finished =>
        /\ Len(invariant_counts) = total
        /\ \A k \in 1..total :
              invariant_counts[k] =
                 IF Len(input.zero_flags) = total /\ input.zero_flags[k]
                 THEN <<0>> ELSE ComputedCount(k)
        /\ Mismatched =>
              \A k \in 1..total : invariant_counts[k] = ComputedCount(k)
WitC29_FlagOnCountedPermutation ==
    /\ Finished /\ Mismatched
    /\ split_depth > 0
    /\ Len(input.zero_flags) > total
    /\ \E k \in 1..total :
          input.zero_flags[k] /\ invariant_counts[k] # <<0>>

\* ---- C30: the array decompose returns -----------------------------------
Decomposed == epc \notin {"idle", "read", "decompose"}

\* C30: whatever the graph, the beam limit and the moment the time budget
\* expires, the array decompose returns is a permutation of 0..n-1.
CexC30_DecomposeReturnsPermutation ==
    Decomposed => IsVertexOrdering(ordering, DG.n)

====
